---- MODULE Spec2Model ----
(***************************************************************************)
(* A model of the reading application: the book catalog (data/books.js),   *)
(* the reader screen that records page progress (BookReaderScreen), and    *)
(* the Home, IntensiveBooks, Profile and GradeSelection screens that read, *)
(* gate on and reset that progress through AsyncStorage.                   *)
(*                                                                         *)
(* AsyncStorage is modelled as a serial backend: the operations submitted  *)
(* by the JavaScript thread wait in one first-in first-out queue; a step   *)
(* of the backend performs the operation at the head and runs the          *)
(* continuation of the async function that awaited it, up to that          *)
(* function's next await (which submits the next operation).  User         *)
(* gestures run between such steps.                                        *)
(***************************************************************************)
EXTENDS Integers, Sequences, FiniteSets, TLC

\* ------------------------------------------------------------ bounds

\* Grades the model explores, of the 12 the selection screen offers: 1 and 2
\* are in the catalog, every greater grade is absent from it.
MaxGrade == 3
\* Operations waiting in the backend's queue beyond which the user makes no
\* gesture that opens, leaves or confirms something.
MaxPending == 2
\* Calls of handlePageUpdate in one run.
MaxCalls == 2
\* Storage operations that may fail in one run.
MaxFailures == 1
\* The last value of the clock that stamps lastRead.
MaxClock == 1
\* Calls of openBrowserAsync that may be pending at once.
MaxOpens == 1

Grades == 1..MaxGrade

\* ------------------------------------------------------------ catalog

booksData ==
  1 :> [intensive |-> <<
          [id |-> "grade1_intensive_1", title |-> "The Cat and the Hat",
           grade |-> 1, type |-> "intensive", totalPages |-> 10, completed |-> FALSE],
          [id |-> "grade1_intensive_2", title |-> "Simple Stories",
           grade |-> 1, type |-> "intensive", totalPages |-> 8, completed |-> FALSE] >>,
        extensive |-> <<
          [id |-> "grade1_extensive_1", title |-> "Fun Reading Adventures",
           grade |-> 1, type |-> "extensive", totalPages |-> 15, completed |-> FALSE] >>]
  @@
  2 :> [intensive |-> <<
          [id |-> "grade2_intensive_1", title |-> "Amazing Animals",
           grade |-> 2, type |-> "intensive", totalPages |-> 12, completed |-> FALSE] >>,
        extensive |-> <<
          [id |-> "grade2_extensive_1", title |-> "Nature Wonders",
           grade |-> 2, type |-> "extensive", totalPages |-> 18, completed |-> FALSE] >>]

getBooksByGrade(grade) ==
  IF grade \in DOMAIN booksData
    THEN booksData[grade]
    ELSE [intensive |-> <<>>, extensive |-> <<>>]

getIntensiveBooks(grade) == getBooksByGrade(grade).intensive

getExtensiveBooks(grade) == getBooksByGrade(grade).extensive

SeqRange(s) == {s[i] : i \in 1..Len(s)}

\* Every book id of the catalog.
BookIds ==
  UNION {{b.id : b \in SeqRange(booksData[g].intensive)}
           \cup {b.id : b \in SeqRange(booksData[g].extensive)} : g \in DOMAIN booksData}

\* The ids of the intensive books of a grade.
intensiveIds(grade) == {b.id : b \in SeqRange(getIntensiveBooks(grade))}

\* ------------------------------------------------------------ stored values

\* What AsyncStorage.getItem resolves to: null for an absent key, else the
\* stored text.  The text of a progress mapping is the JSON object's members
\* in order, each a pair <<book id, record>>.
Null == [present |-> FALSE, text |-> <<>>]
Item(text) == [present |-> TRUE, text |-> text]

\* An object in memory: its keys in insertion order and their values.
EmptyObject == [keys |-> <<>>, vals |-> [k \in {} |-> 0]]

\* JSON.parse of the text of a progress mapping.
JSONparse(text) ==
  [keys |-> [i \in 1..Len(text) |-> text[i][1]],
   vals |-> [k \in {text[i][1] : i \in 1..Len(text)} |->
               (CHOOSE m \in SeqRange(text) : m[1] = k)[2]]]

\* JSON.stringify of such an object: its members in insertion order.
JSONstringify(obj) ==
  [i \in 1..Len(obj.keys) |-> <<obj.keys[i], obj.vals[obj.keys[i]]>>]

\* A faulty assignment that keeps the record a key already has.
ObjectAssign_keepsExisting(obj, id, rec) ==
  IF id \in DOMAIN obj.vals
    THEN obj
    ELSE [keys |-> Append(obj.keys, id), vals |-> obj.vals @@ (id :> rec)]

\* obj[id] = rec: an existing key keeps its place, a new one goes last.
ObjectAssign(obj, id, rec) ==
  IF id \in DOMAIN obj.vals
    THEN [obj EXCEPT !.vals[id] = rec]
    ELSE [keys |-> Append(obj.keys, id), vals |-> obj.vals @@ (id :> rec)]

\* `progress_grade_${grade}`; a null grade prints as "null".
NoGrade == 0
progressKey_sharedKey(grade) == "progress_grade_null"

\* The AsyncStorage key of a grade's progress mapping.
progressKey(grade) ==
  "progress_grade_" \o (IF grade = NoGrade THEN "null" ELSE ToString(grade))

\* grade.toString() and parseInt(text) on the grades' decimal texts.
gradeToString(grade) == ToString(grade)
parseInt(text) == CHOOSE n \in 1..12 : ToString(n) = text

\* Math.round((n / d) * 100) for 0 <= n <= d < 200, in the doubles of
\* JavaScript: halves round up, and the product is the exact one rounded
\* but for n / d = 23 / 40, where it is 57.49999999999999.
MathRound(n, d) ==
  IF 40 * n = 23 * d THEN 57 ELSE (2 * 100 * n + d) \div (2 * d)

\* ------------------------------------------------------------ unlock rule

\* A faulty rule without the test for an empty list: every() of no books.
checkAllIntensiveBooksCompleted_vacuous(grade, progressData) ==
  LET intensiveBooks == getIntensiveBooks(grade) IN
  \A i \in 1..Len(intensiveBooks) :
    /\ intensiveBooks[i].id \in DOMAIN progressData.vals
    /\ progressData.vals[intensiveBooks[i].id].completed

\* books.js: every intensive book has a record whose completed is truthy.
checkAllIntensiveBooksCompleted(grade, progressData) ==
  LET intensiveBooks == getIntensiveBooks(grade) IN
  IF Len(intensiveBooks) = 0 THEN FALSE
  ELSE \A i \in 1..Len(intensiveBooks) :
         /\ intensiveBooks[i].id \in DOMAIN progressData.vals
         /\ progressData.vals[intensiveBooks[i].id].completed

\* A faulty rule that takes any record of a book for a completed one.
checkExtensiveLearningStatus_anyRecord(grade, progress) ==
  IF progress.present
    THEN LET parsedProgress == JSONparse(progress.text)
             intensiveBooks == getIntensiveBooks(grade) IN
         IF Len(intensiveBooks) = 0 THEN FALSE
         ELSE \A i \in 1..Len(intensiveBooks) :
                intensiveBooks[i].id \in DOMAIN parsedProgress.vals
    ELSE FALSE

\* HomeScreen.js: the same rule on what getItem returned; null is locked.
\* (A rejected getItem is caught and yields false: see HomeCheckGetItem.)
checkExtensiveLearningStatus(grade, progress) ==
  IF progress.present
    THEN LET parsedProgress == JSONparse(progress.text)
             intensiveBooks == getIntensiveBooks(grade) IN
         IF Len(intensiveBooks) = 0 THEN FALSE
         ELSE \A i \in 1..Len(intensiveBooks) :
                /\ intensiveBooks[i].id \in DOMAIN parsedProgress.vals
                /\ parsedProgress.vals[intensiveBooks[i].id].completed
    ELSE FALSE

\* ------------------------------------------------------------ state

VARIABLES
  storedGrade,       \* AsyncStorage: the item under 'selectedGrade'
  storedProgress,    \* AsyncStorage: the item under each progress key
  queue,             \* the storage operations submitted and not yet performed
  now,               \* the clock new Date() reads
  screen,            \* the focused route of the stack navigator
  covered,           \* the routes of the stack below it, the first route first
  selection,         \* GradeSelectionScreen's state (the stack's first route)
  home,              \* HomeScreen's state while it is mounted
  list,              \* IntensiveBooksScreen's parameter and state while mounted
  reader,            \* BookReaderScreen's parameters and state while mounted
  profile,           \* ProfileScreen's state while it is mounted
  alerts,            \* the Alert dialogs on display, the one on top last
  platform,          \* what the run has shown of how the device presents Alerts
  browser,           \* the openBrowserAsync calls pending
  calls,             \* the handlePageUpdate calls made, and how each ended
  nFailures,         \* storage operations that failed so far
  unlockIn,          \* inputs of the unlock rule (SpecUnlock)
  unlockOut,         \* its results (SpecUnlock)
  statsIn,           \* the grade and the item loadProgressData reads (SpecStats)
  statsOut,          \* the statistics and the recent list it sets (SpecStats)
  unhandledRoute     \* the route of a navigate() call no navigator handled

vars == <<storedGrade, storedProgress, queue, now, screen, covered, selection, home,
          list, reader, profile, alerts, platform, browser, calls, nFailures,
          unlockIn, unlockOut, statsIn, statsOut, unhandledRoute>>

alertVars == <<alerts, platform>>

routeVars == <<screen, covered>>

unlockVars == <<unlockIn, unlockOut>>

statsVars == <<statsIn, statsOut>>

\* What no gesture and no storage step of the screens touches but the
\* navigate() to a route the navigator lacks.
otherVars == <<unlockIn, unlockOut, statsIn, statsOut, unhandledRoute>>

ProgressKeys == {progressKey(g) : g \in Grades \cup {NoGrade}}

NullText == [present |-> FALSE, text |-> ""]

\* The routes App.js registers in its stack navigator.
Routes == {"GradeSelection", "Home", "IntensiveBooks", "BookReader", "Profile"}
NoRoute == ""

\* useState initial values of the screens.
NoSelection == [selectedGrade |-> NoGrade, isLoading |-> TRUE]

\* A route of the stack.  selection is the state of the GradeSelection of
\* the stack that is nearest to the focus; an earlier GradeSelection, which
\* navigation.replace has put another one above, keeps its state in its
\* entry.
Entry(name) == [name |-> name, selection |-> NoSelection]
NoHome == [selectedGrade |-> NoGrade, extensiveLearningUnlocked |-> FALSE,
           isLoading |-> TRUE]
NoList == [grade |-> NoGrade, isLoading |-> TRUE, progress |-> EmptyObject]
\* ProfileScreen's useState values of stats and recentBooks; intensiveTotal
\* is not among the initial fields.
initialStats ==
  [totalBooksCompleted |-> 0, intensiveBooksCompleted |-> 0,
   extensiveBooksCompleted |-> 0, totalPagesRead |-> 0, currentStreak |-> 0]

NoProfile == [selectedGrade |-> NoGrade, isLoading |-> TRUE,
              stats |-> initialStats, recentBooks |-> <<>>]
NoReader == [open |-> FALSE, book |-> "", title |-> "", grade |-> NoGrade,
             type |-> "", currentPage |-> 0, totalPages |-> 0, progress |-> 0,
             isLoading |-> FALSE]

\* An Alert: its title, the book or the grade it is about, whether the write
\* it follows was acknowledged, whether the screen that raised it is still
\* mounted, and for a GradeSelection its place in the stack.
NoAlert == [title |-> "", book |-> "", grade |-> NoGrade, acked |-> FALSE,
            live |-> FALSE, instance |-> 0]
ErrorAlert == [NoAlert EXCEPT !.title = "Error"]
SuccessAlert == [NoAlert EXCEPT !.title = "Success"]
TestAlert == [NoAlert EXCEPT !.title = "Test"]
ConfirmGradeAlert(grade, instance) ==
  [NoAlert EXCEPT !.title = "Confirm Grade", !.grade = grade, !.live = TRUE,
                  !.instance = instance]
ChangeGradeAlert == [NoAlert EXCEPT !.title = "Change Grade", !.live = TRUE]
ResetProgressAlert(grade) ==
  [NoAlert EXCEPT !.title = "Reset Progress", !.grade = grade, !.live = TRUE]
CongratulationsAlert(book, acked, live) ==
  [NoAlert EXCEPT !.title = "Congratulations", !.book = book, !.acked = acked,
                  !.live = live]

\* The Alert the user sees and whose buttons can be pressed.
alert == IF alerts = <<>> THEN NoAlert ELSE alerts[Len(alerts)]

\* Alert.alert while another Alert is on display.  Android's dialog module
\* dismisses the dialog on display and shows the new one; iOS presents the
\* new one above it, and the earlier one is back when the new one is closed.
\* Which of the two the device does shows the first time it happens.
Platforms == {"android", "ios"}

platformsLeft == IF platform = "any" THEN Platforms ELSE {platform}

raised(as, a, p) ==
  IF as = <<>> \/ p = "ios" THEN Append(as, a) ELSE <<a>>

\* Alert.alert(a) on the Alerts as: the Alerts afterwards and the platform.
AlertAlert(as, a) ==
  IF as = <<>>
    THEN alerts' = <<a>> /\ UNCHANGED platform
    ELSE \E p \in platformsLeft :
           /\ platform' = p
           /\ alerts' = raised(as, a, p)

\* A button of the Alert on top is pressed: the Alert closes.
closed(as) == SubSeq(as, 1, Len(as) - 1)

ReaderAlerts == {"Congratulations"}
ProfileAlerts == {"Reset Progress"}
HomeAlerts == {"Change Grade"}
GradeSelectionAlerts == {"Confirm Grade"}

\* The Alerts of a screen that unmounts stay on display.  titles are the
\* Alerts of the screens that unmount, instances the places in the stack of
\* the GradeSelections among them.
stale(as, titles, instances) ==
  [i \in 1..Len(as) |->
     IF \/ as[i].title \in titles
        \/ as[i].title \in GradeSelectionAlerts /\ as[i].instance \in instances
       THEN [as[i] EXCEPT !.live = FALSE]
       ELSE as[i]]


Undefined == "undefined"

\* A submitted storage operation and the closure of the async function that
\* awaits it.  call is the handlePageUpdate call it belongs to; live is
\* whether the component that made the call is still mounted; instance is
\* the place in the stack of the GradeSelection that made it.
Task(fn, op, key) ==
  [fn |-> fn, op |-> op, key |-> key, text |-> <<>>, gradeText |-> "",
   grade |-> NoGrade, book |-> "", title |-> "", type |-> "", page |-> 0,
   totalPages |-> 0, completed |-> FALSE, next |-> "none", call |-> 0,
   live |-> TRUE, instance |-> 0]

GradeSelectionFns == {"loadSavedGrade", "saveGrade"}
ReaderFns == {"loadProgress", "saveProgress"}
ListFns == {"loadBooksAndProgress"}
HomeFns == {"loadUserData", "checkExtensiveLearningStatus"}
ProfileFns == {"loadProfileData", "loadProgressData", "handleResetProgress"}

\* Components unmount: those whose functions are fns, and the
\* GradeSelections at the places instances.  Their pending calls run on,
\* but their setState calls no longer reach a screen.
unmount(q, fns, instances) ==
  [i \in 1..Len(q) |->
     IF \/ q[i].fn \in fns
        \/ q[i].fn \in GradeSelectionFns /\ q[i].instance \in instances
       THEN [q[i] EXCEPT !.live = FALSE]
       ELSE q[i]]


\* The gestures that open, leave or confirm something submit operations
\* only while the queue has room for them; the page gestures are limited by
\* MaxCalls.
room(n) == Len(queue) + n <= MaxPending

\* The record of a handlePageUpdate call: its arguments, whether the guard
\* let it through, how its promise ended, whether a storage operation of
\* its saveProgress failed, and whether it ran while another update or a
\* reset was under way.
Call(r, page, inRange, status, overlap) ==
  [grade |-> r.grade, book |-> r.book, page |-> page, inRange |-> inRange,
   status |-> status, value |-> IF status = "pending" THEN "" ELSE Undefined,
   failed |-> FALSE, overlap |-> overlap]

Writers == {"saveProgress", "handleResetProgress"}

hasWriter(q) == \E i \in 1..Len(q) : q[i].fn \in Writers

\* The calls with an operation in the queue overlap what is submitted now.
markOverlap(cs, q) ==
  [i \in 1..Len(cs) |->
     IF \E j \in 1..Len(q) : q[j].fn = "saveProgress" /\ q[j].call = i
       THEN [cs[i] EXCEPT !.overlap = TRUE]
       ELSE cs[i]]

\* A storage operation fails only while the run's failures last.
mayEnd(ok) == ok \/ nFailures < MaxFailures
countFailure(ok) == nFailures' = IF ok THEN nFailures ELSE nFailures + 1

NoStatsIn == [grade |-> 1, savedProgress |-> Null]
NoStatsOut ==
  [evaluated |-> FALSE, stats |-> initialStats, recentBooks |-> <<>>,
   achievements |-> [firstBook |-> FALSE, foundationBuilder |-> FALSE,
                     speedReader |-> FALSE, bookworm |-> FALSE]]

\* No Alert on display, no browser being opened, no navigate() unhandled.
NothingShown ==
  /\ alerts = <<>>
  /\ platform = "any"
  /\ browser = <<>>
  /\ unhandledRoute = NoRoute

\* The function specifications' variables, which the screens leave alone.
NothingEvaluated ==
  /\ unlockIn = [grade |-> 1, progress |-> Null]
  /\ unlockOut = [evaluated |-> FALSE, home |-> FALSE, catalog |-> FALSE]
  /\ statsIn = NoStatsIn
  /\ statsOut = NoStatsOut

\* loadSavedGrade up to its await, called by the effect of the
\* GradeSelection that mounts at the place instance of the stack.
loadSavedGradeTask(instance) ==
  [Task("loadSavedGrade", "getItem", "selectedGrade")
     EXCEPT !.instance = instance]

\* The application has started on a device without stored data:
\* GradeSelection, the initial route, has mounted and its effect has called
\* loadSavedGrade.
Init ==
  /\ storedGrade = NullText
  /\ storedProgress = [k \in ProgressKeys |-> Null]
  /\ queue = <<loadSavedGradeTask(1)>>
  /\ now = 0
  /\ screen = "GradeSelection"
  /\ covered = <<>>
  /\ selection = NoSelection
  /\ home = NoHome
  /\ list = NoList
  /\ reader = NoReader
  /\ profile = NoProfile
  /\ calls = <<>>
  /\ nFailures = 0
  /\ NothingShown
  /\ NothingEvaluated

\* The user can act on a screen only while no Alert dialog covers it.
canPress(route) == screen = route /\ alerts = <<>>

\* Time passes.
Tick ==
  /\ now < MaxClock
  /\ now' = now + 1
  /\ UNCHANGED <<storedGrade, storedProgress, queue, routeVars, selection, home,
                 list, reader, profile, alertVars, browser, calls, nFailures,
                 otherVars>>

\* ------------------------------------------------------------ derived values

\* IntensiveBooksScreen.getBookProgress: the record of a book in the mapping
\* the list loaded, or the default record.
getBookProgress(progress, bookId) ==
  IF bookId \in DOMAIN progress.vals
    THEN progress.vals[bookId]
    ELSE [currentPage |-> 0, completed |-> FALSE, totalPages |-> 0]

\* IntensiveBooksScreen.getProgressPercentage, with the catalog's totalPages.
getProgressPercentage(progress, bookId, totalPages) ==
  LET bookProgress == getBookProgress(progress, bookId) IN
  IF bookProgress.completed THEN 100
  ELSE IF totalPages > 0 THEN MathRound(bookProgress.currentPage, totalPages)
  ELSE 0

\* ProfileScreen.getRecentBooks: the progress of an entry, from the record's
\* own totalPages (for totalPages = 0 the division gives NaN or Infinity;
\* saveProgress writes no such record).
recentProgress(data) ==
  IF data.completed THEN 100
  ELSE MathRound(data.currentPage, data.totalPages)

\* Object.values(obj): the values in the keys' insertion order.
ObjectValues(obj) == [i \in 1..Len(obj.keys) |-> obj.vals[obj.keys[i]]]

\* Object.entries(obj): the pairs <<key, value>> in insertion order.
ObjectEntries(obj) == [i \in 1..Len(obj.keys) |-> <<obj.keys[i], obj.vals[obj.keys[i]]>>]

\* A faulty loop body that adds the pages of completed books only.
forEachBookProgress_pagesOfCompleted(counts, bookProgress) ==
  [totalCompleted |->
     counts.totalCompleted + (IF bookProgress.completed THEN 1 ELSE 0),
   intensiveCompleted |->
     counts.intensiveCompleted
       + (IF bookProgress.completed /\ bookProgress.bookType = "intensive"
            THEN 1 ELSE 0),
   extensiveCompleted |->
     counts.extensiveCompleted
       + (IF bookProgress.completed /\ bookProgress.bookType = "extensive"
            THEN 1 ELSE 0),
   totalPagesRead |->
     counts.totalPagesRead
       + (IF bookProgress.completed THEN bookProgress.currentPage ELSE 0)]

\* A faulty loop body that counts every completed book as intensive.
forEachBookProgress_ignoresBookType(counts, bookProgress) ==
  [totalCompleted |->
     counts.totalCompleted + (IF bookProgress.completed THEN 1 ELSE 0),
   intensiveCompleted |->
     counts.intensiveCompleted + (IF bookProgress.completed THEN 1 ELSE 0),
   extensiveCompleted |-> counts.extensiveCompleted,
   totalPagesRead |-> counts.totalPagesRead + bookProgress.currentPage]

\* The body of calculateStats' forEach: the four counters after one record.
\* (currentPage || 0 is currentPage: saveProgress stores a number.)
forEachBookProgress(counts, bookProgress) ==
  [totalCompleted |->
     counts.totalCompleted + (IF bookProgress.completed THEN 1 ELSE 0),
   intensiveCompleted |->
     counts.intensiveCompleted
       + (IF bookProgress.completed /\ bookProgress.bookType = "intensive"
            THEN 1 ELSE 0),
   extensiveCompleted |->
     counts.extensiveCompleted
       + (IF bookProgress.completed /\ bookProgress.bookType = "extensive"
            THEN 1 ELSE 0),
   totalPagesRead |-> counts.totalPagesRead + bookProgress.currentPage]

\* calculateReadingStreak: the number of records, a placeholder.
calculateReadingStreak(progressData) == Len(progressData.keys)

\* calculateStats(progressData, grade): the stats it sets.
calculateStats(progressData, grade) ==
  LET values == ObjectValues(progressData)
      counts[i \in 0..Len(values)] ==
        IF i = 0
          THEN [totalCompleted |-> 0, intensiveCompleted |-> 0,
                extensiveCompleted |-> 0, totalPagesRead |-> 0]
          ELSE forEachBookProgress(counts[i - 1], values[i])
      result == counts[Len(values)]
      intensiveBooks == getIntensiveBooks(grade)
      extensiveBooks == getExtensiveBooks(grade) IN
  [totalBooksCompleted |-> result.totalCompleted,
   intensiveBooksCompleted |-> result.intensiveCompleted,
   extensiveBooksCompleted |-> result.extensiveCompleted,
   totalPagesRead |-> result.totalPagesRead,
   currentStreak |-> calculateReadingStreak(progressData),
   totalBooks |-> Len(intensiveBooks) + Len(extensiveBooks),
   intensiveTotal |-> Len(intensiveBooks),
   extensiveTotal |-> Len(extensiveBooks)]

\* Array.prototype.sort with (a, b) => new Date(b[1].lastRead) - new
\* Date(a[1].lastRead): newest first, and since the sort is stable, entries
\* of equal time in the order they had.
sortByLastRead(entries) ==
  LET insert(sorted, e) ==
        LET p == Cardinality({k \in 1..Len(sorted) :
                                sorted[k][2].lastRead >= e[2].lastRead}) IN
        SubSeq(sorted, 1, p) \o <<e>> \o SubSeq(sorted, p + 1, Len(sorted))
      sorted[i \in 0..Len(entries)] ==
        IF i = 0 THEN <<>> ELSE insert(sorted[i - 1], entries[i])
  IN sorted[Len(entries)]

\* getRecentBooks(progressData): the recentBooks it sets.  (The filter on
\* data.lastRead keeps every record: saveProgress stores a date's text.)
getRecentBooks(progressData) ==
  LET dated(e) == "lastRead" \in DOMAIN e[2]
      sorted == sortByLastRead(SelectSeq(ObjectEntries(progressData), dated))
      first == SubSeq(sorted, 1, IF Len(sorted) < 5 THEN Len(sorted) ELSE 5) IN
  [i \in 1..Len(first) |->
     [id |-> first[i][1], title |-> first[i][2].bookTitle,
      progress |-> recentProgress(first[i][2]),
      completed |-> first[i][2].completed, lastRead |-> first[i][2].lastRead,
      type |-> first[i][2].bookType]]

\* A faulty badge row whose Foundation Builder takes one completed intensive
\* book for all of them.
achievements_oneBookSuffices(stats) ==
  [firstBook |-> stats.totalBooksCompleted >= 1,
   foundationBuilder |->
     /\ "intensiveTotal" \in DOMAIN stats
     /\ stats.intensiveBooksCompleted >= 1
     /\ stats.intensiveTotal > 0,
   speedReader |-> stats.totalBooksCompleted >= 5,
   bookworm |-> stats.totalPagesRead >= 100]

\* A faulty badge row whose Foundation Builder needs no intensive book.
achievements_noBookNeeded(stats) ==
  [firstBook |-> stats.totalBooksCompleted >= 1,
   foundationBuilder |->
     /\ "intensiveTotal" \in DOMAIN stats
     /\ stats.intensiveBooksCompleted = stats.intensiveTotal,
   speedReader |-> stats.totalBooksCompleted >= 5,
   bookworm |-> stats.totalPagesRead >= 100]

\* The unlocked props of the four AchievementBadge components.  (With the
\* initial stats intensiveTotal is undefined, which equals no count.)
achievements(stats) ==
  [firstBook |-> stats.totalBooksCompleted >= 1,
   foundationBuilder |->
     /\ "intensiveTotal" \in DOMAIN stats
     /\ stats.intensiveBooksCompleted = stats.intensiveTotal
     /\ stats.intensiveTotal > 0,
   speedReader |-> stats.totalBooksCompleted >= 5,
   bookworm |-> stats.totalPagesRead >= 100]

\* ------------------------------------------------------------ navigation

loadUserDataTask == Task("loadUserData", "getItem", "selectedGrade")

loadProfileDataTask == Task("loadProfileData", "getItem", "selectedGrade")

\* loadBooksAndProgress up to its await: setBooks, then getItem is submitted.
loadBooksAndProgressTask(grade) ==
  [Task("loadBooksAndProgress", "getItem", progressKey(grade))
     EXCEPT !.grade = grade]

\* The routes of the stack when the gestures of the screens have led to a
\* route, the focused one last.  GradeSelection is the initial route; Home
\* is pushed on it, the book list and the profile on Home, the reader on the
\* book list.
stackOf(route) ==
  CASE route = "GradeSelection" -> <<"GradeSelection">>
    [] route = "Home" -> <<"GradeSelection", "Home">>
    [] route = "IntensiveBooks" -> <<"GradeSelection", "Home", "IntensiveBooks">>
    [] route = "BookReader" ->
         <<"GradeSelection", "Home", "IntensiveBooks", "BookReader">>
    [] route = "Profile" -> <<"GradeSelection", "Home", "Profile">>

\* The entries below the focused route of that stack.
under(route) ==
  [i \in 1..(Len(stackOf(route)) - 1) |-> Entry(stackOf(route)[i])]

\* The names of the routes of a stack, the focused one last.
routeNames(cov, focus) == Append([i \in 1..Len(cov) |-> cov[i].name], focus)

\* The place of the GradeSelection nearest to the focus among the first k
\* routes (0 without one).
lastGradeSelection(names, k) ==
  LET places == {i \in 1..k : names[i] = "GradeSelection"} IN
  IF places = {} THEN 0
  ELSE CHOOSE i \in places : \A j \in places : j <= i

\* The state of the GradeSelection at a place of the stack.
selectionAt(place) ==
  IF place = lastGradeSelection(routeNames(covered, screen), Len(covered) + 1)
    THEN selection
    ELSE covered[place].selection

\* setState of the GradeSelection at a place of the stack: the state of the
\* nearest GradeSelection and the entries below the focus afterwards.
setSelection(place, state) ==
  IF place = lastGradeSelection(routeNames(covered, screen), Len(covered) + 1)
    THEN [selection |-> state, covered |-> covered]
    ELSE [selection |-> selection,
          covered |-> [covered EXCEPT ![place].selection = state]]

\* What the 'focus' listener of a route that regains focus submits.
\* (GradeSelection and the reader register none.)
focusTasks(route) ==
  CASE route = "Home" -> <<loadUserDataTask>>
    [] route = "IntensiveBooks" -> <<loadBooksAndProgressTask(list.grade)>>
    [] OTHER -> <<>>

\* What a route submits when it mounts: its effect calls the load, and the
\* navigator then emits 'focus' to the new route, whose listener the effect
\* has just registered, which calls the load again.
mountTasks(task) == <<task, task>>

\* The route a GO_BACK leaves focused: the one below, or the first route.
below ==
  IF covered = <<>> THEN screen ELSE covered[Len(covered)].name

\* navigation.navigate(name) with a route the stack lacks: the route is
\* pushed on the focused one.
push(route) ==
  /\ screen' = route
  /\ covered' = Append(covered, Entry(screen))

\* The routes above place k of the stack unmount and the route at k regains
\* focus.  q is the queue, as are the Alerts, cov the entries below the focus
\* and sel the state of the GradeSelection nearest to the focus, as the
\* caller leaves them.
popToPlace(k, q, as, cov, sel) ==
  LET names == routeNames(cov, screen)
      n == Len(names)
      places == (k + 1)..n
      removed == {names[i] : i \in places}
      instances == {i \in places : names[i] = "GradeSelection"}
      last == lastGradeSelection(names, k)
      fns == (IF "BookReader" \in removed THEN ReaderFns ELSE {})
               \cup (IF "IntensiveBooks" \in removed THEN ListFns ELSE {})
               \cup (IF "Profile" \in removed THEN ProfileFns ELSE {})
               \cup (IF "Home" \in removed THEN HomeFns ELSE {})
      titles == (IF "BookReader" \in removed THEN ReaderAlerts ELSE {})
                  \cup (IF "Profile" \in removed THEN ProfileAlerts ELSE {})
                  \cup (IF "Home" \in removed THEN HomeAlerts ELSE {}) IN
  /\ screen' = names[k]
  /\ covered' = [i \in 1..(k - 1) |->
                   IF instances # {} /\ i = last THEN Entry("GradeSelection")
                                                  ELSE cov[i]]
  /\ selection' = IF instances = {} THEN sel ELSE cov[last].selection
  /\ reader' = IF "BookReader" \in removed THEN NoReader ELSE reader
  /\ browser' = IF "BookReader" \in removed
                  THEN [i \in 1..Len(browser) |-> FALSE] ELSE browser
  /\ list' = IF "IntensiveBooks" \in removed THEN NoList ELSE list
  /\ profile' = IF "Profile" \in removed THEN NoProfile ELSE profile
  /\ home' = IF "Home" \in removed THEN NoHome ELSE home
  /\ alerts' = stale(as, titles, instances)
  /\ queue' = unmount(q, fns, instances)
                \o (IF places = {} THEN <<>> ELSE focusTasks(names[k]))

\* The stack goes back to the route of a name that it holds (NAVIGATE to a
\* route of the stack): to the focused route if it has the name, else to
\* the nearest one below it.
popTo(target, q, as, cov, sel) ==
  LET names == routeNames(cov, screen)
      n == Len(names)
      k == IF names[n] = target THEN n
           ELSE CHOOSE i \in 1..n :
                  /\ names[i] = target
                  /\ \A j \in (i + 1)..n : names[j] # target IN
  popToPlace(k, q, as, cov, sel)

\* navigation.goBack(): the action carries no target, so the stack pops its
\* focused route, whichever screen the navigation object belongs to; with
\* one route in the stack nothing is popped.
goBack(q, as) ==
  popToPlace(IF covered = <<>> THEN 1 ELSE Len(covered), q, as, covered,
             selection)

\* navigation.navigate('Home'): with Home in the stack the stack goes back
\* to it; else Home is pushed and mounts.
navigateHome(q, as, cov, sel) ==
  IF \E i \in 1..(Len(cov) + 1) : routeNames(cov, screen)[i] = "Home"
    THEN popTo("Home", q, as, cov, sel)
    ELSE /\ screen' = "Home"
         /\ covered' = Append(cov, Entry(screen))
         /\ home' = NoHome
         /\ selection' = sel
         /\ queue' = q \o mountTasks(loadUserDataTask)
         /\ alerts' = as
         /\ UNCHANGED <<list, reader, profile, browser>>

\* navigation.replace('GradeSelection') of loadUserData and loadProfileData
\* when no grade is stored: the focused route unmounts and a new
\* GradeSelection takes its place and mounts, the routes below staying as
\* they are; a is the Alert the caller raises after it (NoAlert for none).
\* (No run reaches it: the grade is stored before Home first mounts, and
\* nothing removes it.)
replaceGradeSelection(q, a) ==
  LET names == routeNames(covered, screen)
      n == Len(names)
      instances == IF screen = "GradeSelection" THEN {n} ELSE {}
      last == lastGradeSelection(names, n - 1)
      fns == CASE screen = "BookReader" -> ReaderFns
               [] screen = "IntensiveBooks" -> ListFns
               [] screen = "Profile" -> ProfileFns
               [] screen = "Home" -> HomeFns
               [] OTHER -> {}
      titles == CASE screen = "BookReader" -> ReaderAlerts
                  [] screen = "Profile" -> ProfileAlerts
                  [] screen = "Home" -> HomeAlerts
                  [] OTHER -> {}
      left == stale(alerts, titles, instances) IN
  /\ screen' = "GradeSelection"
  /\ covered' = [i \in 1..(n - 1) |->
                   IF instances = {} /\ i = last
                     THEN [covered[i] EXCEPT !.selection = selection]
                     ELSE covered[i]]
  /\ selection' = NoSelection
  /\ reader' = IF screen = "BookReader" THEN NoReader ELSE reader
  /\ browser' = IF screen = "BookReader"
                  THEN [i \in 1..Len(browser) |-> FALSE] ELSE browser
  /\ list' = IF screen = "IntensiveBooks" THEN NoList ELSE list
  /\ profile' = IF screen = "Profile" THEN NoProfile ELSE profile
  /\ home' = IF screen = "Home" THEN NoHome ELSE home
  /\ queue' = Append(unmount(q, fns, instances), loadSavedGradeTask(n))
  /\ IF a = NoAlert
       THEN alerts' = left /\ UNCHANGED platform
       ELSE AlertAlert(left, a)

\* A route the navigator has a screen for is navigated to; for any other
\* route the NAVIGATE action is handled by no navigator and the screen stays.
navigate(route) ==
  IF route \in Routes
    THEN push(route) /\ UNCHANGED unhandledRoute
    ELSE unhandledRoute' = route /\ UNCHANGED routeVars

\* ------------------------------------------------------------ reader screen

\* updateProgress: the percentage the reader displays.
updateProgress(page, total) == IF total > 0 THEN MathRound(page, total) ELSE 0

\* A faulty guard without the lower limit.
pageOutOfRange_noLowerLimit(page, totalPages) == page > totalPages

\* A faulty guard without the upper limit.
pageOutOfRange_noUpperLimit(page, totalPages) == page < 1

\* handlePageUpdate's guard: the pages it returns on without doing anything.
pageOutOfRange(page, totalPages) == page < 1 \/ page > totalPages

\* A faulty record that is completed whatever saveProgress was given.
progressRecord_alwaysCompleted(page, totalPages, completed, lastRead, bookTitle, bookType) ==
  [currentPage |-> page, totalPages |-> totalPages, completed |-> TRUE,
   lastRead |-> lastRead, bookTitle |-> bookTitle, bookType |-> bookType]

\* A faulty record that never takes the completed flag.
progressRecord_neverCompleted(page, totalPages, completed, lastRead, bookTitle, bookType) ==
  [currentPage |-> page, totalPages |-> totalPages, completed |-> FALSE,
   lastRead |-> lastRead, bookTitle |-> bookTitle, bookType |-> bookType]

\* A faulty record that files every book under the extensive tier.
progressRecord_extensiveType(page, totalPages, completed, lastRead, bookTitle, bookType) ==
  [currentPage |-> page, totalPages |-> totalPages, completed |-> completed,
   lastRead |-> lastRead, bookTitle |-> bookTitle, bookType |-> "extensive"]

\* The record saveProgress stores under the book's id.
progressRecord(page, totalPages, completed, lastRead, bookTitle, bookType) ==
  [currentPage |-> page, totalPages |-> totalPages, completed |-> completed,
   lastRead |-> lastRead, bookTitle |-> bookTitle, bookType |-> bookType]

\* The completed argument handlePageUpdate passes to saveProgress.
pageUpdateCompleted(page, totalPages) == FALSE

\* The pages of the five quick-jump buttons.
quickJumpPages(totalPages) ==
  <<1, (totalPages * 25) \div 100, (totalPages * 50) \div 100,
    (totalPages * 75) \div 100, totalPages>>

\* saveProgress(page, completed) up to its first await: getItem is submitted.
saveProgressTask(r, page, completed, next, call) ==
  [Task("saveProgress", "getItem", progressKey(r.grade)) EXCEPT
     !.grade = r.grade, !.book = r.book, !.title = r.title, !.type = r.type,
     !.page = page, !.totalPages = r.totalPages, !.completed = completed,
     !.next = next, !.call = call]

\* IntensiveBooksScreen.handleBookSelection and the reader's mount: the
\* state starts at page 1, 0 percent, and loadProgress submits its getItem.
\* The list renders its books only once its load has ended.
SelectBook(i) ==
  /\ canPress("IntensiveBooks")
  /\ ~list.isLoading
  /\ i \in 1..Len(getIntensiveBooks(list.grade))
  /\ room(1)
  /\ LET book == getIntensiveBooks(list.grade)[i] IN
     /\ reader' = [open |-> TRUE, book |-> book.id, title |-> book.title,
                   grade |-> list.grade, type |-> "intensive",
                   currentPage |-> 1, totalPages |-> book.totalPages,
                   progress |-> 0, isLoading |-> FALSE]
     /\ queue' = Append(queue,
                   [Task("loadProgress", "getItem", progressKey(list.grade))
                      EXCEPT !.grade = list.grade, !.book = book.id,
                             !.totalPages = book.totalPages])
  /\ push("BookReader")
  /\ UNCHANGED <<storedGrade, storedProgress, now, selection, home, list,
                 profile, alertVars, browser, calls, nFailures, otherVars>>

\* loadBooksAndProgress after its getItem: a stored text is parsed into the
\* list's progress; a rejection raises the Alert 'Error'; either way the
\* list stops showing "Loading books...".
ListLoadGetItem(ok) ==
  /\ queue # <<>> /\ queue[1].fn = "loadBooksAndProgress"
  /\ mayEnd(ok) /\ countFailure(ok)
  /\ LET t == queue[1]
         savedProgress == storedProgress[t.key] IN
     /\ list' =
          IF ~t.live THEN list
          ELSE [list EXCEPT
                  !.progress = IF ok /\ savedProgress.present
                                 THEN JSONparse(savedProgress.text) ELSE @,
                  !.isLoading = FALSE]
     /\ IF ok THEN UNCHANGED alertVars ELSE AlertAlert(alerts, ErrorAlert)
  /\ queue' = Tail(queue)
  /\ UNCHANGED <<storedGrade, storedProgress, now, routeVars, selection, home,
                 reader, profile, browser, calls, otherVars>>

\* loadProgress after its getItem: a stored record with currentPage > 0 sets
\* the displayed page and percentage; a rejection is caught and logged.
LoadProgressGetItem(ok) ==
  /\ queue # <<>> /\ queue[1].fn = "loadProgress"
  /\ mayEnd(ok) /\ countFailure(ok)
  /\ LET t == queue[1]
         savedProgress == storedProgress[t.key]
         parsedProgress == JSONparse(savedProgress.text) IN
     reader' =
       IF /\ ok /\ t.live /\ savedProgress.present
          /\ t.book \in DOMAIN parsedProgress.vals
          /\ parsedProgress.vals[t.book].currentPage > 0
         THEN [reader EXCEPT
                 !.currentPage = parsedProgress.vals[t.book].currentPage,
                 !.progress = updateProgress(parsedProgress.vals[t.book].currentPage,
                                             t.totalPages)]
         ELSE reader
  /\ queue' = Tail(queue)
  /\ UNCHANGED <<storedGrade, storedProgress, now, routeVars, selection, home,
                 list, profile, alertVars, browser, calls, otherVars>>

\* handlePageUpdate(page) up to its first await.  Out of range: it returns
\* at once, its promise resolved with undefined.  In range: the displayed
\* page and percentage change and saveProgress(page, false) is submitted.
handlePageUpdate(page) ==
  /\ canPress("BookReader")
  /\ Len(calls) < MaxCalls
  /\ IF pageOutOfRange(page, reader.totalPages)
       THEN /\ calls' = Append(calls, Call(reader, page, FALSE, "resolved", FALSE))
            /\ UNCHANGED <<reader, queue>>
       ELSE /\ reader' = [reader EXCEPT
                            !.currentPage = page,
                            !.progress = updateProgress(page, reader.totalPages)]
            /\ queue' = Append(queue,
                          saveProgressTask(reader, page,
                            pageUpdateCompleted(page, reader.totalPages),
                            "handlePageUpdate", Len(calls) + 1))
            /\ calls' = Append(markOverlap(calls, queue),
                          Call(reader, page, TRUE, "pending", hasWriter(queue)))
  /\ UNCHANGED <<storedGrade, storedProgress, now, routeVars, selection, home,
                 list, profile, alertVars, browser, nFailures, otherVars>>

\* The Previous and Next buttons (disabled at the ends of the book) and the
\* quick-jump buttons.
PressPreviousPage ==
  /\ reader.currentPage > 1
  /\ handlePageUpdate(reader.currentPage - 1)

PressNextPage ==
  /\ reader.currentPage < reader.totalPages
  /\ handlePageUpdate(reader.currentPage + 1)

PressQuickJump(i) == handlePageUpdate(quickJumpPages(reader.totalPages)[i])

\* handlePageUpdate called with a page outside the book.  The buttons never
\* pass one for the catalog's books: Previous and Next are disabled at the
\* ends, and a quick jump is 0 only for a book of fewer than four pages.
CallPageUpdate(page) == handlePageUpdate(page)

\* What runs when a saveProgress call returns to the function awaiting it.
\* handlePageUpdate resumes: on the last page it calls handleBookCompletion,
\* which submits saveProgress(totalPages, true), and then its promise
\* resolves.  handleBookCompletion resumes: the Alert is shown.
afterSaveProgress(t, rest, wrote) ==
  /\ queue' =
       IF t.next = "handlePageUpdate" /\ t.page = t.totalPages
         THEN Append(rest,
                [saveProgressTask(t, t.totalPages, TRUE, "handleBookCompletion", t.call)
                   EXCEPT !.live = t.live])
         ELSE rest
  /\ calls' =
       IF t.next = "handlePageUpdate"
         THEN [calls EXCEPT ![t.call].status = "resolved",
                            ![t.call].value = Undefined,
                            ![t.call].failed = ~wrote]
         ELSE calls
  /\ IF t.next = "handleBookCompletion"
       THEN AlertAlert(alerts, CongratulationsAlert(t.book, wrote, t.live))
       ELSE UNCHANGED alertVars

\* saveProgress after getItem: the stored mapping (or {}) gets the book's
\* record and setItem is submitted.  A rejected getItem is caught and
\* logged, and saveProgress returns.
SaveProgressGetItem(ok) ==
  /\ queue # <<>> /\ queue[1].fn = "saveProgress" /\ queue[1].op = "getItem"
  /\ mayEnd(ok) /\ countFailure(ok)
  /\ LET t == queue[1]
         existingProgress == storedProgress[t.key]
         progressData == IF existingProgress.present
                           THEN JSONparse(existingProgress.text)
                           ELSE EmptyObject
         written == ObjectAssign(progressData, t.book,
                      progressRecord(t.page, t.totalPages, t.completed, now,
                                     t.title, t.type)) IN
     IF ok
       THEN /\ queue' = Append(Tail(queue),
                          [t EXCEPT !.op = "setItem",
                                    !.text = JSONstringify(written)])
            /\ UNCHANGED <<calls, alertVars>>
       ELSE afterSaveProgress(t, Tail(queue), FALSE)
  /\ UNCHANGED <<storedGrade, storedProgress, now, routeVars, selection, home,
                 list, reader, profile, browser, otherVars>>

\* saveProgress after setItem: the text is stored, or the rejection is
\* caught and logged; either way saveProgress returns.
SaveProgressSetItem(ok) ==
  /\ queue # <<>> /\ queue[1].fn = "saveProgress" /\ queue[1].op = "setItem"
  /\ mayEnd(ok) /\ countFailure(ok)
  /\ storedProgress' =
       IF ok THEN [storedProgress EXCEPT ![queue[1].key] = Item(queue[1].text)]
             ELSE storedProgress
  /\ afterSaveProgress(queue[1], Tail(queue), ok)
  /\ UNCHANGED <<storedGrade, now, routeVars, selection, home, list, reader,
                 profile, browser, otherVars>>

\* handleOpenPDF up to its await: the button shows "Opening..." and is
\* disabled, and openBrowserAsync is called.
handleOpenPDF ==
  /\ canPress("BookReader")
  /\ ~reader.isLoading
  /\ Len(browser) < MaxOpens
  /\ reader' = [reader EXCEPT !.isLoading = TRUE]
  /\ browser' = Append(browser, TRUE)
  /\ UNCHANGED <<storedGrade, storedProgress, queue, now, routeVars, selection,
                 home, list, profile, alertVars, calls, nFailures, otherVars>>

\* handleOpenPDF after openBrowserAsync: the button is enabled again; a
\* rejection raises the Alert 'Error'.
OpenBrowserEnds(ok) ==
  \E i \in 1..Len(browser) :
    /\ reader' = IF browser[i] THEN [reader EXCEPT !.isLoading = FALSE]
                              ELSE reader
    /\ browser' = SubSeq(browser, 1, i - 1) \o SubSeq(browser, i + 1, Len(browser))
    /\ IF ok THEN UNCHANGED alertVars ELSE AlertAlert(alerts, ErrorAlert)
    /\ UNCHANGED <<storedGrade, storedProgress, queue, now, routeVars, selection,
                   home, list, profile, calls, nFailures, otherVars>>

\* The hardware back button on the reader (its header is hidden): the
\* reader unmounts, its pending calls run on, the list regains focus.
ReaderGoBack ==
  /\ canPress("BookReader")
  /\ room(1)
  /\ goBack(queue, alerts)
  /\ UNCHANGED <<storedGrade, storedProgress, now, platform, calls,
                 nFailures, otherVars>>

\* The header's back button of the book list.
IntensiveBooksGoBack ==
  /\ canPress("IntensiveBooks")
  /\ room(1)
  /\ goBack(queue, alerts)
  /\ UNCHANGED <<storedGrade, storedProgress, now, platform, calls,
                 nFailures, otherVars>>

\* The "Go Back" of the Alert handleBookCompletion raises: the Alert closes
\* and navigation.goBack() pops the route in focus, which is the reader that
\* raised it only while that reader is still the one on display.
AlertGoBack ==
  /\ alert.title = "Congratulations"
  /\ room(Len(focusTasks(below)))
  /\ goBack(queue, closed(alerts))
  /\ UNCHANGED <<storedGrade, storedProgress, now, platform, calls,
                 nFailures, otherVars>>

\* Any button of an Alert that only closes it: "OK", "Continue", "Cancel".
DismissAlert ==
  /\ alerts # <<>>
  /\ alerts' = closed(alerts)
  /\ UNCHANGED <<storedGrade, storedProgress, queue, now, routeVars, selection,
                 home, list, reader, profile, platform, browser, calls,
                 nFailures, otherVars>>

\* ------------------------------------------------------------ other screens

\* loadSavedGrade after its getItem: a stored grade is shown as the selected
\* one; a rejection is caught and logged; finally the grade buttons replace
\* "Loading...".
LoadSavedGradeGetItem(ok) ==
  /\ queue # <<>> /\ queue[1].fn = "loadSavedGrade"
  /\ mayEnd(ok) /\ countFailure(ok)
  /\ LET t == queue[1]
         set == IF ~t.live THEN [selection |-> selection, covered |-> covered]
                ELSE setSelection(t.instance,
                       [selectionAt(t.instance) EXCEPT
                          !.selectedGrade = IF ok /\ storedGrade.present
                                              THEN parseInt(storedGrade.text)
                                              ELSE @,
                          !.isLoading = FALSE]) IN
     /\ selection' = set.selection
     /\ covered' = set.covered
  /\ queue' = Tail(queue)
  /\ UNCHANGED <<storedGrade, storedProgress, now, screen, home, list, reader,
                 profile, alertVars, browser, calls, otherVars>>

\* GradeSelectionScreen.handleGradeSelection: a grade button is pressed and
\* the dialog 'Confirm Grade' is shown.
handleGradeSelection(grade) ==
  /\ canPress("GradeSelection") /\ ~selection.isLoading
  /\ AlertAlert(alerts, ConfirmGradeAlert(grade, Len(covered) + 1))
  /\ UNCHANGED <<storedGrade, storedProgress, queue, now, routeVars, selection,
                 home, list, reader, profile, browser, calls, nFailures,
                 otherVars>>

\* The "Test Button" of GradeSelectionScreen.
PressTestButton ==
  /\ canPress("GradeSelection") /\ ~selection.isLoading
  /\ AlertAlert(alerts, TestAlert)
  /\ UNCHANGED <<storedGrade, storedProgress, queue, now, routeVars, selection,
                 home, list, reader, profile, browser, calls, nFailures,
                 otherVars>>

\* saveGrade(grade) up to its await: setItem is submitted.
saveGradeTask(grade) ==
  [Task("saveGrade", "setItem", "selectedGrade")
     EXCEPT !.grade = grade, !.gradeText = gradeToString(grade)]

\* The dialog's "Confirm": it closes and saveGrade of the GradeSelection
\* that raised it is called with the grade the dialog was raised for,
\* whichever screen is in focus by now.
ConfirmGrade ==
  /\ alert.title = "Confirm Grade"
  /\ room(1)
  /\ alerts' = closed(alerts)
  /\ queue' = Append(queue,
                [saveGradeTask(alert.grade)
                   EXCEPT !.live = alert.live, !.instance = alert.instance])
  /\ UNCHANGED <<storedGrade, storedProgress, now, routeVars, selection, home,
                 list, reader, profile, platform, browser, calls, nFailures,
                 otherVars>>

\* saveGrade after setItem: the grade is stored and selected, and
\* navigate('Home') opens Home or returns to it.  A rejection raises the
\* Alert 'Error'.
SaveGradeSetItem(ok) ==
  /\ queue # <<>> /\ queue[1].fn = "saveGrade"
  /\ mayEnd(ok) /\ countFailure(ok)
  /\ IF ok
       THEN LET t == queue[1]
                set == IF ~t.live
                         THEN [selection |-> selection, covered |-> covered]
                         ELSE setSelection(t.instance,
                                [selectionAt(t.instance)
                                   EXCEPT !.selectedGrade = t.grade]) IN
            /\ storedGrade' = [present |-> TRUE, text |-> t.gradeText]
            /\ navigateHome(Tail(queue), alerts, set.covered, set.selection)
            /\ UNCHANGED platform
       ELSE /\ AlertAlert(alerts, ErrorAlert)
            /\ queue' = Tail(queue)
            /\ UNCHANGED <<storedGrade, routeVars, selection, home, list, reader,
                           profile, browser>>
  /\ UNCHANGED <<storedProgress, now, calls, otherVars>>

\* loadUserData after getItem('selectedGrade'): the grade is set and
\* checkExtensiveLearningStatus submits its getItem; without a grade Home is
\* replaced by GradeSelection; a rejection is caught.  finally: isLoading.
HomeLoadGetGrade(ok) ==
  /\ queue # <<>> /\ queue[1].fn = "loadUserData"
  /\ mayEnd(ok) /\ countFailure(ok)
  /\ LET t == queue[1] IN
     IF ok /\ storedGrade.present
       THEN LET grade == parseInt(storedGrade.text) IN
            /\ home' = IF t.live THEN [home EXCEPT !.selectedGrade = grade] ELSE home
            /\ queue' = Append(Tail(queue),
                          [Task("checkExtensiveLearningStatus", "getItem",
                                progressKey(grade))
                             EXCEPT !.grade = grade, !.live = t.live])
            /\ UNCHANGED <<routeVars, selection, list, reader, profile,
                           alertVars, browser>>
       ELSE IF ok
         THEN replaceGradeSelection(Tail(queue), NoAlert)
         ELSE /\ queue' = Tail(queue)
              /\ home' = IF t.live THEN [home EXCEPT !.isLoading = FALSE]
                                   ELSE home
              /\ UNCHANGED <<routeVars, selection, list, reader, profile,
                             alertVars, browser>>
  /\ UNCHANGED <<storedGrade, storedProgress, now, calls, otherVars>>

\* A faulty continuation in which a rejected getItem ends loadUserData in
\* its own catch, before the flag is set.
HomeCheckGetItem_keepsFlagOnFailure(ok) ==
  /\ queue # <<>> /\ queue[1].fn = "checkExtensiveLearningStatus"
  /\ mayEnd(ok) /\ countFailure(ok)
  /\ LET t == queue[1]
         unlocked == IF ok
                       THEN checkExtensiveLearningStatus(t.grade, storedProgress[t.key])
                       ELSE home.extensiveLearningUnlocked IN
     home' = IF t.live
               THEN [home EXCEPT !.extensiveLearningUnlocked = unlocked,
                                 !.isLoading = FALSE]
               ELSE home
  /\ queue' = Tail(queue)
  /\ UNCHANGED <<storedGrade, storedProgress, now, routeVars, selection, list,
                 reader, profile, alertVars, browser, calls, otherVars>>

\* loadUserData after checkExtensiveLearningStatus: the flag is set to the
\* rule's result, or to false when getItem was rejected.
HomeCheckGetItem(ok) ==
  /\ queue # <<>> /\ queue[1].fn = "checkExtensiveLearningStatus"
  /\ mayEnd(ok) /\ countFailure(ok)
  /\ LET t == queue[1]
         unlocked == IF ok
                       THEN checkExtensiveLearningStatus(t.grade, storedProgress[t.key])
                       ELSE FALSE IN
     home' = IF t.live
               THEN [home EXCEPT !.extensiveLearningUnlocked = unlocked,
                                 !.isLoading = FALSE]
               ELSE home
  /\ queue' = Tail(queue)
  /\ UNCHANGED <<storedGrade, storedProgress, now, routeVars, selection, list,
                 reader, profile, alertVars, browser, calls, otherVars>>

\* Home's cards are rendered once isLoading is false.  The Intensive
\* Learning card: without a grade an Alert, else navigate('IntensiveBooks',
\* {grade}): the list mounts and loads.
handleIntensiveLearning ==
  /\ canPress("Home") /\ ~home.isLoading
  /\ IF home.selectedGrade = NoGrade
       THEN /\ AlertAlert(alerts, ErrorAlert)
            /\ UNCHANGED <<routeVars, list, queue>>
       ELSE /\ room(2)
            /\ push("IntensiveBooks")
            /\ list' = [NoList EXCEPT !.grade = home.selectedGrade]
            /\ queue' = queue \o mountTasks(
                          loadBooksAndProgressTask(home.selectedGrade))
            /\ UNCHANGED alertVars
  /\ UNCHANGED <<storedGrade, storedProgress, now, selection, home, reader,
                 profile, browser, calls, nFailures, otherVars>>

\* The Extensive Learning card, disabled while the state's flag is false:
\* without a grade an Alert, else navigate('ExtensiveBooks').
handleExtensiveLearning ==
  /\ canPress("Home") /\ ~home.isLoading
  /\ home.extensiveLearningUnlocked
  /\ IF home.selectedGrade = NoGrade
       THEN AlertAlert(alerts, ErrorAlert) /\ UNCHANGED <<routeVars, unhandledRoute>>
       ELSE navigate("ExtensiveBooks") /\ UNCHANGED alertVars
  /\ UNCHANGED <<storedGrade, storedProgress, queue, now, selection, home,
                 list, reader, profile, browser, calls, nFailures, unlockVars,
                 statsVars>>

\* navigate('Profile'): Profile mounts and loads.
handleProfile ==
  /\ canPress("Home") /\ ~home.isLoading
  /\ room(2)
  /\ push("Profile")
  /\ profile' = NoProfile
  /\ queue' = queue \o mountTasks(loadProfileDataTask)
  /\ UNCHANGED <<storedGrade, storedProgress, now, selection, home, list,
                 reader, alertVars, browser, calls, nFailures, otherVars>>

\* The "Change" link beside the grade, rendered while Home has a grade: the
\* dialog 'Change Grade' is shown.
handleChangeGrade ==
  /\ canPress("Home") /\ ~home.isLoading
  /\ home.selectedGrade # NoGrade
  /\ AlertAlert(alerts, ChangeGradeAlert)
  /\ UNCHANGED <<storedGrade, storedProgress, queue, now, routeVars, selection,
                 home, list, reader, profile, browser, calls, nFailures,
                 otherVars>>

\* A faulty "Change" that does what its dialog announces ("This will reset
\* your progress"): it drops the stored mapping of the grade Home shows.
ConfirmChangeGrade_resetsProgress ==
  /\ alert.title = "Change Grade"
  /\ popTo("GradeSelection", queue, closed(alerts), covered, selection)
  /\ storedProgress' =
       [storedProgress EXCEPT ![progressKey(home.selectedGrade)] = Null]
  /\ UNCHANGED <<storedGrade, now, platform, calls, nFailures, otherVars>>

\* The dialog's "Change": it closes and navigate('GradeSelection') returns
\* to the GradeSelection of the stack; the screens above it unmount.
ConfirmChangeGrade ==
  /\ alert.title = "Change Grade"
  /\ popTo("GradeSelection", queue, closed(alerts), covered, selection)
  /\ UNCHANGED <<storedGrade, storedProgress, now, platform, calls,
                 nFailures, otherVars>>

\* loadProfileData after getItem('selectedGrade'), as in Home; then
\* loadProgressData submits its getItem.  next = "handleResetProgress" when
\* the reset awaits this load to show its Alert.
afterLoadProfileData(t, loaded) ==
  /\ profile' = IF t.live THEN [loaded EXCEPT !.isLoading = FALSE] ELSE profile
  /\ IF t.next = "handleResetProgress"
       THEN AlertAlert(alerts, SuccessAlert)
       ELSE UNCHANGED alertVars

ProfileLoadGetGrade(ok) ==
  /\ queue # <<>> /\ queue[1].fn = "loadProfileData"
  /\ mayEnd(ok) /\ countFailure(ok)
  /\ LET t == queue[1] IN
     IF ok /\ storedGrade.present
       THEN LET grade == parseInt(storedGrade.text) IN
            /\ profile' = IF t.live THEN [profile EXCEPT !.selectedGrade = grade]
                                    ELSE profile
            /\ queue' = Append(Tail(queue),
                          [Task("loadProgressData", "getItem", progressKey(grade))
                             EXCEPT !.grade = grade, !.live = t.live,
                                    !.next = t.next])
            /\ UNCHANGED <<routeVars, selection, home, list, reader, alertVars,
                           browser>>
       ELSE IF ok
         THEN replaceGradeSelection(Tail(queue),
                IF t.next = "handleResetProgress" THEN SuccessAlert
                                                  ELSE NoAlert)
         ELSE /\ queue' = Tail(queue)
              /\ afterLoadProfileData(t, profile)
              /\ UNCHANGED <<routeVars, selection, home, list, reader, browser>>
  /\ UNCHANGED <<storedGrade, storedProgress, now, calls, otherVars>>

\* loadProgressData(grade) after its getItem resolved: a stored item is
\* parsed and calculateStats and getRecentBooks set their state from it;
\* without an item (null) nothing is set.
loadProgressData(state, savedProgress, grade) ==
  IF savedProgress.present
    THEN LET parsedProgress == JSONparse(savedProgress.text) IN
         [state EXCEPT !.stats = calculateStats(parsedProgress, grade),
                       !.recentBooks = getRecentBooks(parsedProgress)]
    ELSE state

\* loadProgressData after getItem (a rejection is caught and logged);
\* loadProfileData's finally clears isLoading.
ProfileLoadGetItem(ok) ==
  /\ queue # <<>> /\ queue[1].fn = "loadProgressData"
  /\ mayEnd(ok) /\ countFailure(ok)
  /\ afterLoadProfileData(queue[1],
       IF ok THEN loadProgressData(profile, storedProgress[queue[1].key],
                                   queue[1].grade)
             ELSE profile)
  /\ queue' = Tail(queue)
  /\ UNCHANGED <<storedGrade, storedProgress, now, routeVars, selection, home,
                 list, reader, browser, calls, otherVars>>

\* The "Reset All Progress" button: the dialog 'Reset Progress' is shown,
\* its "Reset" holding the grade Profile shows now.
handleResetProgress ==
  /\ canPress("Profile") /\ ~profile.isLoading
  /\ AlertAlert(alerts, ResetProgressAlert(profile.selectedGrade))
  /\ UNCHANGED <<storedGrade, storedProgress, queue, now, routeVars, selection,
                 home, list, reader, profile, browser, calls, nFailures,
                 otherVars>>

\* The dialog's "Reset": it closes and removeItem is submitted for the
\* grade the dialog holds.
ConfirmReset ==
  /\ alert.title = "Reset Progress"
  /\ room(1)
  /\ alerts' = closed(alerts)
  /\ queue' = Append(queue,
                [Task("handleResetProgress", "removeItem",
                      progressKey(alert.grade))
                   EXCEPT !.grade = alert.grade, !.live = alert.live])
  /\ calls' = markOverlap(calls, queue)
  /\ UNCHANGED <<storedGrade, storedProgress, now, routeVars, selection, home,
                 list, reader, profile, platform, browser, nFailures,
                 otherVars>>

\* A faulty removal that leaves the item where it is.
removeItem_keepsItem(items, key) == items

\* AsyncStorage.removeItem(key): afterwards getItem(key) resolves to null.
removeItem(items, key) == [items EXCEPT ![key] = Null]

\* After removeItem: the key is gone and loadProfileData is awaited before
\* the Alert 'Success'; a rejection raises the Alert 'Error'.
ResetRemoveItem(ok) ==
  /\ queue # <<>> /\ queue[1].fn = "handleResetProgress"
  /\ mayEnd(ok) /\ countFailure(ok)
  /\ IF ok
       THEN /\ storedProgress' = removeItem(storedProgress, queue[1].key)
            /\ queue' = Append(Tail(queue),
                          [loadProfileDataTask
                             EXCEPT !.live = queue[1].live,
                                    !.next = "handleResetProgress"])
            /\ UNCHANGED alertVars
       ELSE /\ AlertAlert(alerts, ErrorAlert)
            /\ queue' = Tail(queue)
            /\ UNCHANGED storedProgress
  /\ UNCHANGED <<storedGrade, now, routeVars, selection, home, list, reader,
                 profile, browser, calls, otherVars>>

\* The header's back button of Profile: it unmounts, Home regains focus and
\* reloads.
ProfileGoBack ==
  /\ canPress("Profile")
  /\ room(1)
  /\ goBack(queue, alerts)
  /\ UNCHANGED <<storedGrade, storedProgress, now, platform, calls, nFailures,
                 otherVars>>

\* The hardware back button (or the back swipe) on Home, whose header has
\* no back button: Home unmounts and GradeSelection regains focus.
HomeGoBack ==
  /\ canPress("Home")
  /\ goBack(queue, alerts)
  /\ UNCHANGED <<storedGrade, storedProgress, now, platform, calls, nFailures,
                 otherVars>>


\* The hardware back button (or the back swipe) on a GradeSelection that
\* navigation.replace has put above other routes: it unmounts and the route
\* below regains focus.
GradeSelectionGoBack ==
  /\ canPress("GradeSelection") /\ covered # <<>>
  /\ room(Len(focusTasks(below)))
  /\ goBack(queue, alerts)
  /\ UNCHANGED <<storedGrade, storedProgress, now, platform, calls, nFailures,
                 otherVars>>

\* ------------------------------------------------------------ specifications

\* GradeSelectionScreen and HomeScreen once their loads have ended.
loadedSelection(grade) == [selectedGrade |-> grade, isLoading |-> FALSE]

loadedHome(grade, unlocked) ==
  [selectedGrade |-> grade, extensiveLearningUnlocked |-> unlocked,
   isLoading |-> FALSE]

\* IntensiveBooksScreen once its loads have ended, having read the item.
loadedList(grade, item) ==
  [grade |-> grade, isLoading |-> FALSE,
   progress |-> IF item.present THEN JSONparse(item.text) ELSE EmptyObject]

\* The whole application on a device whose storage does not fail.  Its page
\* gesture is the one that completes a book, the quick jump to the last
\* page (the fifth button); SpecReader takes every page gesture.
Next ==
  \/ LoadSavedGradeGetItem(TRUE)
  \/ \E g \in Grades : handleGradeSelection(g)
  \/ PressTestButton
  \/ ConfirmGrade
  \/ SaveGradeSetItem(TRUE)
  \/ HomeLoadGetGrade(TRUE)
  \/ HomeCheckGetItem(TRUE)
  \/ handleIntensiveLearning
  \/ handleProfile
  \/ handleChangeGrade
  \/ ConfirmChangeGrade
  \/ HomeGoBack
  \/ ListLoadGetItem(TRUE)
  \/ IntensiveBooksGoBack
  \/ \E i \in 1..2 : SelectBook(i)
  \/ LoadProgressGetItem(TRUE)
  \/ PressQuickJump(5)
  \/ SaveProgressGetItem(TRUE)
  \/ SaveProgressSetItem(TRUE)
  \/ handleOpenPDF
  \/ \E ok \in BOOLEAN : OpenBrowserEnds(ok)
  \/ ReaderGoBack
  \/ AlertGoBack
  \/ DismissAlert
  \/ ProfileLoadGetGrade(TRUE)
  \/ ProfileLoadGetItem(TRUE)
  \/ handleResetProgress
  \/ ConfirmReset
  \/ ResetRemoveItem(TRUE)
  \/ ProfileGoBack

Spec == Init /\ [][Next]_vars

\* The same with the Extensive Learning card, which Spec leaves alone.
NextTiers ==
  \/ Next
  \/ handleExtensiveLearning

SpecTiers == Init /\ [][NextTiers]_vars

\* The reader's part of the application, from the state in which a grade of
\* the catalog has been selected, Home has loaded it and the book list is
\* open and has loaded.
InitReader ==
  /\ \E g \in DOMAIN booksData :
       /\ storedGrade = [present |-> TRUE, text |-> gradeToString(g)]
       /\ selection = loadedSelection(g)
       /\ home = loadedHome(g, FALSE)
       /\ list = loadedList(g, Null)
  /\ storedProgress = [k \in ProgressKeys |-> Null]
  /\ queue = <<>>
  /\ now = 0
  /\ screen = "IntensiveBooks"
  /\ covered = under("IntensiveBooks")
  /\ reader = NoReader
  /\ profile = NoProfile
  /\ calls = <<>>
  /\ nFailures = 0
  /\ NothingShown
  /\ NothingEvaluated

\* Every page gesture and every call of handlePageUpdate, storage reliable.
NextReader ==
  \/ \E i \in 1..2 : SelectBook(i)
  \/ LoadProgressGetItem(TRUE)
  \/ PressPreviousPage
  \/ PressNextPage
  \/ \E i \in 1..5 : PressQuickJump(i)
  \/ \E page \in {0, reader.totalPages + 1} : CallPageUpdate(page)
  \/ SaveProgressGetItem(TRUE)
  \/ SaveProgressSetItem(TRUE)
  \/ ReaderGoBack
  \/ ListLoadGetItem(TRUE)
  \/ AlertGoBack
  \/ DismissAlert

SpecReader == InitReader /\ [][NextReader]_vars

\* The reader with the gestures that turn one page and that end a book,
\* and the calls outside the book.
NextBook ==
  \/ \E i \in 1..2 : SelectBook(i)
  \/ LoadProgressGetItem(TRUE)
  \/ PressPreviousPage
  \/ PressNextPage
  \/ PressQuickJump(5)
  \/ \E page \in {0, reader.totalPages + 1} : CallPageUpdate(page)
  \/ SaveProgressGetItem(TRUE)
  \/ SaveProgressSetItem(TRUE)
  \/ ReaderGoBack
  \/ ListLoadGetItem(TRUE)
  \/ AlertGoBack
  \/ DismissAlert

SpecBook == InitReader /\ [][NextBook]_vars

\* The same, with every pending storage operation eventually performed and
\* the function awaiting it resumed: AsyncStorage settles each promise and
\* the event loop runs each continuation.
StorageSteps ==
  \/ ListLoadGetItem(TRUE)
  \/ LoadProgressGetItem(TRUE)
  \/ SaveProgressGetItem(TRUE)
  \/ SaveProgressSetItem(TRUE)

SpecReaderLive == SpecReader /\ WF_vars(StorageSteps)

\* The reader on a device whose storage operations may be rejected and
\* whose clock runs.
NextFail ==
  \/ Tick
  \/ \E i \in 1..2 : SelectBook(i)
  \/ \E ok \in BOOLEAN : LoadProgressGetItem(ok)
  \/ PressNextPage
  \/ PressQuickJump(5)
  \/ \E ok \in BOOLEAN : SaveProgressGetItem(ok)
  \/ \E ok \in BOOLEAN : SaveProgressSetItem(ok)
  \/ handleOpenPDF
  \/ \E ok \in BOOLEAN : OpenBrowserEnds(ok)
  \/ ReaderGoBack
  \/ \E ok \in BOOLEAN : ListLoadGetItem(ok)
  \/ AlertGoBack
  \/ DismissAlert

SpecFail == InitReader /\ [][NextFail]_vars

\* Two grades at once.  A book of grade h was updated to its last page, the
\* reader was left, the grade was changed to g and a book of g has been
\* opened and loaded, while the setItem of handleBookCompletion's
\* saveProgress for h is still pending: a state the whole application is in
\* when its storage is slower than its user.
completionPending(grade, book) ==
  LET r == [grade |-> grade, book |-> book.id, title |-> book.title,
            type |-> book.type, totalPages |-> book.totalPages]
      record(completed) ==
        progressRecord(book.totalPages, book.totalPages, completed, 0,
                       book.title, book.type) IN
  [stored |-> Item(JSONstringify(ObjectAssign(EmptyObject, book.id, record(FALSE)))),
   task |-> [saveProgressTask(r, book.totalPages, TRUE, "handleBookCompletion", 1)
               EXCEPT !.op = "setItem", !.live = FALSE,
                      !.text = JSONstringify(ObjectAssign(EmptyObject, book.id,
                                                          record(TRUE)))],
   call |-> Call(r, book.totalPages, TRUE, "resolved", FALSE)]

InitGrades ==
  /\ \E h \in DOMAIN booksData :
       \E g \in DOMAIN booksData \ {h} :
         \E i \in 1..Len(getIntensiveBooks(h)), j \in 1..Len(getIntensiveBooks(g)) :
           LET pending == completionPending(h, getIntensiveBooks(h)[i])
               book == getIntensiveBooks(g)[j] IN
           /\ reader = [open |-> TRUE, book |-> book.id, title |-> book.title,
                        grade |-> g, type |-> "intensive", currentPage |-> 1,
                        totalPages |-> book.totalPages, progress |-> 0,
                        isLoading |-> FALSE]
           /\ storedGrade = [present |-> TRUE, text |-> gradeToString(g)]
           /\ storedProgress =
                [k \in ProgressKeys |->
                   IF k = progressKey(h) THEN pending.stored ELSE Null]
           /\ queue = <<pending.task>>
           /\ calls = <<pending.call>>
           /\ selection = loadedSelection(g)
           /\ home = loadedHome(g, FALSE)
           /\ list = loadedList(g, Null)
  /\ now = 0
  /\ screen = "BookReader"
  /\ covered = under("BookReader")
  /\ profile = NoProfile
  /\ nFailures = 0
  /\ NothingShown
  /\ NothingEvaluated

\* From there the user reads in grade g, goes back to Home, opens the
\* profile and resets grade g.
NextGrades ==
  \/ \E i \in 1..2 : SelectBook(i)
  \/ LoadProgressGetItem(TRUE)
  \/ \E i \in 1..5 : PressQuickJump(i)
  \/ SaveProgressGetItem(TRUE)
  \/ SaveProgressSetItem(TRUE)
  \/ ReaderGoBack
  \/ AlertGoBack
  \/ DismissAlert
  \/ ListLoadGetItem(TRUE)
  \/ IntensiveBooksGoBack
  \/ HomeLoadGetGrade(TRUE)
  \/ HomeCheckGetItem(TRUE)
  \/ handleProfile
  \/ ProfileLoadGetGrade(TRUE)
  \/ ProfileLoadGetItem(TRUE)
  \/ handleResetProgress
  \/ ConfirmReset
  \/ ResetRemoveItem(TRUE)

SpecGrades == InitGrades /\ [][NextGrades]_vars

\* A reset racing a save.  A book of grade g was updated to its last page,
\* the user went back to Home and opened the profile, which has loaded the
\* record of the page write, while the getItem of handleBookCompletion's
\* saveProgress is still pending: a state the whole application is in when
\* its storage is slower than its user.
InitReset ==
  /\ \E g \in DOMAIN booksData :
       \E i \in 1..Len(getIntensiveBooks(g)) :
         LET pending == completionPending(g, getIntensiveBooks(g)[i]) IN
         /\ storedGrade = [present |-> TRUE, text |-> gradeToString(g)]
         /\ storedProgress =
              [k \in ProgressKeys |->
                 IF k = progressKey(g) THEN pending.stored ELSE Null]
         /\ queue = <<[pending.task EXCEPT !.op = "getItem", !.text = <<>>]>>
         /\ calls = <<pending.call>>
         /\ selection = loadedSelection(g)
         /\ home = loadedHome(g, FALSE)
         /\ profile = [loadProgressData(NoProfile, pending.stored, g)
                         EXCEPT !.selectedGrade = g, !.isLoading = FALSE]
  /\ list = NoList
  /\ now = 0
  /\ screen = "Profile"
  /\ covered = under("Profile")
  /\ reader = NoReader
  /\ nFailures = 0
  /\ NothingShown
  /\ NothingEvaluated

\* From there the user resets the grade, and moves between the profile and
\* Home; no page update is issued.
NextReset ==
  \/ handleResetProgress
  \/ ConfirmReset
  \/ ResetRemoveItem(TRUE)
  \/ SaveProgressGetItem(TRUE)
  \/ SaveProgressSetItem(TRUE)
  \/ ProfileLoadGetGrade(TRUE)
  \/ ProfileLoadGetItem(TRUE)
  \/ DismissAlert
  \/ ProfileGoBack
  \/ HomeLoadGetGrade(TRUE)
  \/ HomeCheckGetItem(TRUE)
  \/ handleProfile

SpecReset == InitReset /\ [][NextReset]_vars

\* Home on a device whose storage operations may be rejected.  A grade of
\* the catalog is selected; each of its intensive books has no record, a
\* record at page 1 or the record of a completed book; Home has loaded and
\* shows the flag of that mapping.  calls lists the updates made from here
\* on: none.
homeText(grade, f) ==
  LET stored(b) == f[b.id] # "absent"
      books == SelectSeq(getIntensiveBooks(grade), stored) IN
  [i \in 1..Len(books) |->
     <<books[i].id,
       progressRecord(IF f[books[i].id] = "started" THEN 1 ELSE books[i].totalPages,
                      books[i].totalPages, f[books[i].id] = "completed",
                      0, books[i].title, "intensive")>>]

homeItems(grade) ==
  {IF homeText(grade, f) = <<>> THEN Null ELSE Item(homeText(grade, f)) :
     f \in [intensiveIds(grade) -> {"absent", "started", "completed"}]}

InitHome ==
  /\ \E g \in DOMAIN booksData :
       \E item \in homeItems(g) :
         /\ storedGrade = [present |-> TRUE, text |-> gradeToString(g)]
         /\ storedProgress =
              [k \in ProgressKeys |-> IF k = progressKey(g) THEN item ELSE Null]
         /\ selection = loadedSelection(g)
         /\ home = loadedHome(g, checkExtensiveLearningStatus(g, item))
  /\ queue = <<>>
  /\ now = 0
  /\ screen = "Home"
  /\ covered = under("Home")
  /\ list = NoList
  /\ reader = NoReader
  /\ profile = NoProfile
  /\ calls = <<>>
  /\ nFailures = 0
  /\ NothingShown
  /\ NothingEvaluated

\* The user opens the book list and comes back, which reloads Home.
NextHome ==
  \/ handleIntensiveLearning
  \/ \E ok \in BOOLEAN : ListLoadGetItem(ok)
  \/ IntensiveBooksGoBack
  \/ DismissAlert
  \/ \E ok \in BOOLEAN : HomeLoadGetGrade(ok)
  \/ \E ok \in BOOLEAN : HomeCheckGetItem(ok)

SpecHome == InitHome /\ [][NextHome]_vars

\* Changing the grade, from the same states: the user goes back to the
\* grade selection, by the "Change" link or the back button, selects grades
\* there, opens the book list, and opens the profile and resets the grade.
NextChange ==
  \/ handleChangeGrade
  \/ ConfirmChangeGrade
  \/ HomeGoBack
  \/ \E g \in Grades : handleGradeSelection(g)
  \/ PressTestButton
  \/ ConfirmGrade
  \/ SaveGradeSetItem(TRUE)
  \/ HomeLoadGetGrade(TRUE)
  \/ HomeCheckGetItem(TRUE)
  \/ DismissAlert
  \/ handleProfile
  \/ ProfileLoadGetGrade(TRUE)
  \/ ProfileLoadGetItem(TRUE)
  \/ handleResetProgress
  \/ ConfirmReset
  \/ ResetRemoveItem(TRUE)
  \/ ProfileGoBack
  \/ handleIntensiveLearning
  \/ ListLoadGetItem(TRUE)
  \/ IntensiveBooksGoBack

SpecChange == InitHome /\ [][NextChange]_vars

\* The unlock rule as a function: its inputs are a grade and what getItem
\* returns for the grade's key, null or any mapping of the catalog's books
\* to records.
allBooks ==
  getIntensiveBooks(1) \o getExtensiveBooks(1)
    \o getIntensiveBooks(2) \o getExtensiveBooks(2)

ReadingStates == {"absent", "started", "lastPage", "completed"}

\* The stored text in which each book has the record its reading state gives.
mappingText(f) ==
  LET stored(b) == f[b.id] # "absent"
      books == SelectSeq(allBooks, stored) IN
  [i \in 1..Len(books) |->
     <<books[i].id,
       progressRecord(IF f[books[i].id] = "started" THEN 1 ELSE books[i].totalPages,
                      books[i].totalPages, f[books[i].id] = "completed", 0,
                      books[i].title, books[i].type)>>]

StoredMappings ==
  {Null} \cup {Item(mappingText(f)) : f \in [BookIds -> ReadingStates]}

\* The application at rest on a device without stored data: GradeSelection
\* has loaded and shows its grades.
NothingStored ==
  /\ storedGrade = NullText
  /\ storedProgress = [k \in ProgressKeys |-> Null]
  /\ queue = <<>>
  /\ now = 0
  /\ screen = "GradeSelection"
  /\ covered = under("GradeSelection")
  /\ selection = loadedSelection(NoGrade)
  /\ home = NoHome
  /\ list = NoList
  /\ reader = NoReader
  /\ profile = NoProfile
  /\ calls = <<>>
  /\ nFailures = 0
  /\ alerts = <<>>
  /\ platform = "any"
  /\ browser = <<>>

InitUnlock ==
  /\ NothingStored
  /\ unlockIn \in [grade : Grades, progress : StoredMappings]
  /\ unlockOut = [evaluated |-> FALSE, home |-> FALSE, catalog |-> FALSE]
  /\ statsIn = NoStatsIn
  /\ statsOut = NoStatsOut
  /\ unhandledRoute = NoRoute

\* Both implementations of the rule are applied to the input: Home's to the
\* item, the catalog's to the parsed mapping (its default {} for null).
EvaluateUnlock ==
  /\ ~unlockOut.evaluated
  /\ unlockOut' =
       [evaluated |-> TRUE,
        home |-> checkExtensiveLearningStatus(unlockIn.grade, unlockIn.progress),
        catalog |-> checkAllIntensiveBooksCompleted(unlockIn.grade,
                      IF unlockIn.progress.present
                        THEN JSONparse(unlockIn.progress.text)
                        ELSE EmptyObject)]
  /\ UNCHANGED <<storedGrade, storedProgress, queue, now, routeVars, selection,
                 home, list, reader, profile, alertVars, browser, calls,
                 nFailures, unlockIn, statsVars, unhandledRoute>>

NextUnlock == EvaluateUnlock

SpecUnlock == InitUnlock /\ [][NextUnlock]_vars

\* The profile's statistics as a function of the grade and of the item
\* stored under the grade's key.  The records are those saveProgress writes,
\* for the catalog's books and for one longer book of a grade added to the
\* catalog "following the same pattern"; calculateStats and getRecentBooks
\* take whatever mapping the item holds.
LongBookPages == 40

statsBooks ==
  allBooks \o
    << [id |-> "grade3_extensive_1", title |-> "Long Stories", grade |-> 3,
        type |-> "extensive", totalPages |-> LongBookPages, completed |-> FALSE] >>

\* The stored text in which each book has the record its reading state and
\* the time of its last update give.
statsText(f, lastRead) ==
  LET stored(b) == f[b.id] # "absent"
      books == SelectSeq(statsBooks, stored) IN
  [i \in 1..Len(books) |->
     <<books[i].id,
       progressRecord(IF f[books[i].id] = "started" THEN 1 ELSE books[i].totalPages,
                      books[i].totalPages, f[books[i].id] = "completed",
                      lastRead[books[i].id], books[i].title, books[i].type)>>]

statsBookIds == {statsBooks[i].id : i \in 1..Len(statsBooks)}

InitStats ==
  /\ NothingStored
  /\ unlockIn = [grade |-> 1, progress |-> Null]
  /\ unlockOut = [evaluated |-> FALSE, home |-> FALSE, catalog |-> FALSE]
  /\ \E grade \in Grades :
       \E savedProgress \in
            {Null} \cup {Item(statsText(f, [id \in statsBookIds |-> 0])) :
                           f \in [statsBookIds -> ReadingStates]} :
         statsIn = [grade |-> grade, savedProgress |-> savedProgress]
  /\ statsOut = NoStatsOut
  /\ unhandledRoute = NoRoute

\* loadProgressData after its getItem, on a profile just mounted: a stored
\* item is parsed and calculateStats and getRecentBooks set their state;
\* without an item the state stays as it is.  The screen then renders the
\* badges from the stats.
EvaluateStats ==
  /\ ~statsOut.evaluated
  /\ statsOut' =
       IF statsIn.savedProgress.present
         THEN LET parsedProgress == JSONparse(statsIn.savedProgress.text)
                  stats == calculateStats(parsedProgress, statsIn.grade) IN
              [evaluated |-> TRUE,
               stats |-> stats,
               recentBooks |-> getRecentBooks(parsedProgress),
               achievements |-> achievements(stats)]
         ELSE [statsOut EXCEPT !.evaluated = TRUE,
                               !.achievements = achievements(statsOut.stats)]
  /\ UNCHANGED <<storedGrade, storedProgress, queue, now, routeVars, selection,
                 home, list, reader, profile, alertVars, browser, calls,
                 nFailures, unlockVars, statsIn, unhandledRoute>>

NextStats == EvaluateStats

SpecStats == InitStats /\ [][NextStats]_vars

\* The recent list as a function of the stored item: records of books
\* started or completed, each last updated at a time of its own.
InitRecent ==
  /\ NothingStored
  /\ unlockIn = [grade |-> 1, progress |-> Null]
  /\ unlockOut = [evaluated |-> FALSE, home |-> FALSE, catalog |-> FALSE]
  /\ \E f \in [statsBookIds -> {"absent", "started", "completed"}] :
       \E lastRead \in [statsBookIds -> 0..MaxClock] :
         /\ \A id \in statsBookIds : f[id] = "absent" => lastRead[id] = 0
         /\ statsIn = [grade |-> 1, savedProgress |-> Item(statsText(f, lastRead))]
  /\ statsOut = NoStatsOut
  /\ unhandledRoute = NoRoute

SpecRecent == InitRecent /\ [][NextStats]_vars

\* ------------------------------------------------------------ properties

\* The record stored for a book of a grade, in the given storage items.
hasRecord(items, grade, book) ==
  /\ items[progressKey(grade)].present
  /\ book \in DOMAIN JSONparse(items[progressKey(grade)].text).vals

recordOf(items, grade, book) ==
  JSONparse(items[progressKey(grade)].text).vals[book]

isCompleted(items, grade, book) ==
  hasRecord(items, grade, book) /\ recordOf(items, grade, book).completed

noSaveInFlight == \A i \in 1..Len(queue) : queue[i].fn # "saveProgress"

\* C1: once the stored record of a book has completed = true, no step other
\* than the removal of the grade's mapping (a reset) makes it false or
\* removes it.
C1_CompletedIsMonotonic ==
  [][\A g \in Grades, b \in BookIds :
       isCompleted(storedProgress, g, b)
         => \/ isCompleted(storedProgress', g, b)
            \/ ~storedProgress'[progressKey(g)].present]_vars

\* The rule C2 states, read off the stored text: the grade has an intensive
\* book, and each has a member whose record is completed.
tierSatisfied(grade, progress) ==
  /\ Len(getIntensiveBooks(grade)) > 0
  /\ \A b \in SeqRange(getIntensiveBooks(grade)) :
       \E m \in SeqRange(progress.text) : m[1] = b.id /\ m[2].completed = TRUE

\* C2: for every grade and every stored mapping the unlock result is true
\* exactly when the grade's intensive list is non-empty and every intensive
\* book has a stored record with completed = true; Home's
\* checkExtensiveLearningStatus and the catalog's
\* checkAllIntensiveBooksCompleted give the same result.
C2_UnlockRule ==
  unlockOut.evaluated
    => /\ unlockOut.home = tierSatisfied(unlockIn.grade, unlockIn.progress)
       /\ unlockOut.catalog = unlockOut.home

\* A grade whose intensive books are all stored completed was evaluated,
\* and both implementations unlocked it.
C2_Witness ==
  /\ unlockOut.evaluated
  /\ unlockOut.home /\ unlockOut.catalog
  /\ Len(getIntensiveBooks(unlockIn.grade)) > 1

\* No load of the mounted Home is under way.
homeLoaded ==
  /\ ~home.isLoading
  /\ \A i \in 1..Len(queue) : ~(queue[i].live /\ queue[i].fn \in HomeFns)

\* C3: a grade without intensive books (every grade absent from the
\* catalog) is locked in every reachable state: both implementations of the
\* rule say so of what is stored for it, and a Home that has loaded it
\* shows it locked.
C3_EmptyGradeLocked ==
  \A g \in Grades :
    Len(getIntensiveBooks(g)) = 0
      => /\ ~checkExtensiveLearningStatus(g, storedProgress[progressKey(g)])
         /\ ~checkAllIntensiveBooksCompleted(g,
               IF storedProgress[progressKey(g)].present
                 THEN JSONparse(storedProgress[progressKey(g)].text)
                 ELSE EmptyObject)
         /\ (home.selectedGrade = g /\ homeLoaded
               => ~home.extensiveLearningUnlocked)

\* Grade 1 has been read to the end and is unlocked in storage; then a grade
\* absent from the catalog was selected and Home has loaded it.
C3_Witness ==
  /\ screen = "Home" /\ homeLoaded
  /\ home.selectedGrade \in Grades
  /\ Len(getIntensiveBooks(home.selectedGrade)) = 0
  /\ checkExtensiveLearningStatus(1, storedProgress[progressKey(1)])

\* C4: when two accepted page updates for two different books of one grade
\* overlapped and both have finished, the stored mapping holds both books'
\* records with the pages the updates gave.
C4_NoLostUpdate ==
  \A i, j \in 1..Len(calls) :
    ( /\ calls[i].inRange /\ calls[j].inRange
      /\ calls[i].overlap /\ calls[j].overlap
      /\ calls[i].grade = calls[j].grade /\ calls[i].book # calls[j].book
      /\ \A k \in 1..Len(calls) : k \in {i, j} \/ ~calls[k].inRange
      /\ noSaveInFlight )
    => /\ hasRecord(storedProgress, calls[i].grade, calls[i].book)
       /\ recordOf(storedProgress, calls[i].grade, calls[i].book).currentPage
            = calls[i].page

\* C5: when several accepted page updates for one book were issued in
\* quick succession (they overlapped) and all have finished, the stored
\* currentPage of the book is the page of the update issued last.
C5_LastIssuedWins ==
  LET n == Len(calls) IN
  ( /\ n >= 2
    /\ \A k \in 1..n : /\ calls[k].inRange /\ calls[k].overlap
                       /\ calls[k].grade = calls[n].grade
                       /\ calls[k].book = calls[n].book
    /\ noSaveInFlight )
  => /\ hasRecord(storedProgress, calls[n].grade, calls[n].book)
     /\ recordOf(storedProgress, calls[n].grade, calls[n].book).currentPage
          = calls[n].page

\* A call that was accepted, met no failure and overlapped nothing, and that
\* no later accepted call for the same book follows.
cleanLatest(i) ==
  /\ calls[i].inRange /\ calls[i].status = "resolved"
  /\ ~calls[i].failed /\ ~calls[i].overlap
  /\ \A k \in (i + 1)..Len(calls) :
       ~(calls[k].inRange /\ calls[k].book = calls[i].book)

\* C6: after a valid page update has run to completion without failure and
\* without overlapping another update, the mapping read back from storage
\* holds the book's record with currentPage equal to the page.
C6_AcceptedUpdateIsStored ==
  \A i \in 1..Len(calls) :
    cleanLatest(i)
      => /\ hasRecord(storedProgress, calls[i].grade, calls[i].book)
         /\ recordOf(storedProgress, calls[i].grade, calls[i].book).currentPage
              = calls[i].page

\* A second update of a book that already had a record has completed on its
\* own, away from the first page, and is what storage returns.
C6_Witness ==
  \E i, j \in 1..Len(calls) :
    /\ i < j /\ cleanLatest(j) /\ calls[i].inRange
    /\ calls[i].book = calls[j].book /\ calls[i].page # calls[j].page
    /\ recordOf(storedProgress, calls[j].grade, calls[j].book).currentPage
         = calls[j].page

\* C7: a call of handlePageUpdate with a page below 1 or above the book's
\* totalPages leaves the stored mapping, the displayed page and percentage
\* and the queue of storage operations unchanged.
C7_OutOfRangeChangesNothing ==
  [][( /\ Len(calls') = Len(calls) + 1
       /\ \/ calls'[Len(calls')].page < 1
          \/ calls'[Len(calls')].page > reader.totalPages )
     => /\ storedProgress' = storedProgress
        /\ reader' = reader
        /\ queue' = queue]_vars

\* The reader shows a book that has a stored record, and a call with a page
\* outside the book was made for it.
C7_Witness ==
  /\ reader.open
  /\ hasRecord(storedProgress, reader.grade, reader.book)
  /\ \E i \in 1..Len(calls) :
       /\ calls[i].book = reader.book
       /\ calls[i].page < 1 \/ calls[i].page > reader.totalPages

\* C8: a page update that is out of range ends in a failure, the rejection
\* PageOutOfRange, which differs from the outcome of an accepted update.
C8_OutOfRangeIsRejected ==
  \A i \in 1..Len(calls) :
    ~calls[i].inRange
      => calls[i].status = "rejected" /\ calls[i].value = "PageOutOfRange"

\* C9: a page update whose storage read or write failed is not reported as
\* a success: its promise is rejected.
C9_FailureReachesCaller ==
  \A i \in 1..Len(calls) :
    calls[i].failed => calls[i].status = "rejected"

\* C10: the completion Alert is on display only if storage acknowledged the
\* write of completed = true that precedes it.
C10_AlertAfterAcknowledgedWrite ==
  \A i \in 1..Len(alerts) :
    alerts[i].title = "Congratulations" => alerts[i].acked

\* The mapping a reader of storage gets for a grade: null reads as {}.
mappingOf(items, grade) ==
  IF items[progressKey(grade)].present
    THEN JSONparse(items[progressKey(grade)].text)
    ELSE EmptyObject

\* The step in which storage serves the removeItem of a reset: the reset
\* is at the head of the queue and its loadProfileData takes the last place.
resetServed ==
  /\ queue # <<>>
  /\ queue[1].fn = "handleResetProgress" /\ queue[1].op = "removeItem"
  /\ Len(queue') = Len(queue)
  /\ SubSeq(queue', 1, Len(queue) - 1) = Tail(queue)
  /\ queue'[Len(queue')].fn = "loadProfileData"
  /\ queue'[Len(queue')].next = "handleResetProgress"

\* C11: when the removeItem of a reset of a grade has been served, the
\* grade's stored mapping reads as the empty mapping and the unlock result
\* for the grade is the one of a grade without any stored progress, locked.
C11_ResetEmptiesGrade ==
  [][resetServed
       => /\ mappingOf(storedProgress', queue[1].grade) = EmptyObject
          /\ checkExtensiveLearningStatus(queue[1].grade,
                 storedProgress'[progressKey(queue[1].grade)])
               = checkExtensiveLearningStatus(queue[1].grade, Null)
          /\ ~checkExtensiveLearningStatus(queue[1].grade,
                 storedProgress'[progressKey(queue[1].grade)])]_vars

\* The reset of a grade whose book had been read to the end has finished:
\* the success Alert is up and the grade's mapping is gone.
C11_Witness ==
  /\ alert = SuccessAlert
  /\ screen = "Profile" /\ profile.selectedGrade \in DOMAIN booksData
  /\ ~storedProgress[progressKey(profile.selectedGrade)].present
  /\ \E i \in 1..Len(calls) :
       /\ calls[i].grade = profile.selectedGrade
       /\ calls[i].inRange /\ calls[i].status = "resolved"

\* The latest accepted page update of a book, 0 when there is none.
latestCall(grade, book) ==
  LET made == {i \in 1..Len(calls) :
                 calls[i].inRange /\ calls[i].grade = grade /\ calls[i].book = book}
  IN IF made = {} THEN 0 ELSE CHOOSE i \in made : \A j \in made : j <= i

\* The latest accepted update of the book was to its last page.
readToEnd(grade, book) ==
  /\ latestCall(grade, book.id) # 0
  /\ calls[latestCall(grade, book.id)].page = book.totalPages

\* Every accepted update has finished, one after the other, none failed.
allClean ==
  /\ noSaveInFlight
  /\ \A i \in 1..Len(calls) :
       calls[i].inRange
         => calls[i].status = "resolved" /\ ~calls[i].overlap /\ ~calls[i].failed

\* C12: from empty progress, a grade is unlocked only after each of its
\* intensive books got an update to its last page; and when page updates
\* ran one after the other, a book whose latest update was to its last page
\* is stored completed with percentage 100, and the grade is unlocked
\* exactly when that holds of every intensive book: after grade 1's first
\* book went to page 10 the tier is locked, after the second went to page 8
\* it is unlocked.
C12_UnlockedByLastCompletion ==
  \A g \in DOMAIN booksData :
    LET unlocked == checkExtensiveLearningStatus(g, storedProgress[progressKey(g)])
        books == SeqRange(getIntensiveBooks(g)) IN
    /\ unlocked
         => \A b \in books :
              \E i \in 1..Len(calls) :
                /\ calls[i].inRange /\ calls[i].grade = g
                /\ calls[i].book = b.id /\ calls[i].page = b.totalPages
    /\ allClean
         => /\ \A b \in books :
                 readToEnd(g, b)
                   => /\ isCompleted(storedProgress, g, b.id)
                      /\ getProgressPercentage(mappingOf(storedProgress, g),
                                               b.id, b.totalPages) = 100
            /\ unlocked <=> \A b \in books : readToEnd(g, b)

\* Grade 1: the first book was updated to page 10 and then the second to
\* page 8, one after the other, and the tier is unlocked.
C12_Witness ==
  /\ allClean
  /\ Len(calls) = 2
  /\ calls[1].book = "grade1_intensive_1" /\ calls[1].page = 10
  /\ calls[2].book = "grade1_intensive_2" /\ calls[2].page = 8
  /\ checkExtensiveLearningStatus(1, storedProgress[progressKey(1)])

\* C13: for every stored record the book list, the reader and the profile's
\* recent activity all show 100 when the record is completed, 0 when its
\* totalPages is 0, and otherwise 100 * currentPage / totalPages rounded
\* down.
C13_PercentageIsFloor ==
  \A g \in DOMAIN booksData :
    LET progress == mappingOf(storedProgress, g) IN
    \A id \in DOMAIN progress.vals :
      LET record == progress.vals[id]
          percent == IF record.completed THEN 100
                     ELSE IF record.totalPages = 0 THEN 0
                     ELSE (100 * record.currentPage) \div record.totalPages IN
      /\ getProgressPercentage(progress, id, record.totalPages) = percent
      /\ updateProgress(record.currentPage, record.totalPages) = percent
      /\ recentProgress(record) = percent

\* C14: in every state, every stored record's percentage lies in 0..100 and
\* is 100 exactly when the record is completed, in the book list and in the
\* profile's recent activity alike.
C14_HundredIffCompleted ==
  \A g \in DOMAIN booksData :
    LET progress == mappingOf(storedProgress, g) IN
    \A id \in DOMAIN progress.vals :
      LET record == progress.vals[id]
          listed == getProgressPercentage(progress, id, record.totalPages)
          recent == recentProgress(record) IN
      /\ listed \in 0..100 /\ recent \in 0..100
      /\ listed = 100 <=> record.completed
      /\ recent = 100 <=> record.completed

\* C15: a step that carries out a page update's write or a reset for one
\* grade leaves the stored mapping of every other grade as it was, whatever
\* else is pending at that moment.
C15_OtherGradesUntouched ==
  [][(queue # <<>> /\ queue[1].fn \in {"saveProgress", "handleResetProgress"})
       => \A g \in Grades \cup {NoGrade} :
            g # queue[1].grade
              => storedProgress'[progressKey(g)] = storedProgress[progressKey(g)]]_vars

\* A page update for one grade was submitted while the completion write of
\* another grade's book was pending; both have been written and both
\* grades' records are stored.
C15_Witness ==
  /\ Len(calls) = 2
  /\ calls[1].grade # calls[2].grade
  /\ calls[1].overlap /\ calls[2].overlap
  /\ calls[2].status = "resolved"
  /\ isCompleted(storedProgress, calls[1].grade, calls[1].book)
  /\ hasRecord(storedProgress, calls[2].grade, calls[2].book)

\* C16: a stored progress item changes only in the step that serves the
\* setItem of a page update's saveProgress, which stores a mapping with the
\* book's record, or the removeItem of a reset, which leaves no mapping, and
\* then only the item of that operation's key; navigation, a screen's
\* reload on focus and the confirmation of a grade change no stored mapping.
C16_OnlyUpdatesAndResets ==
  [][\A k \in ProgressKeys :
       storedProgress'[k] # storedProgress[k]
         => /\ queue # <<>>
            /\ queue[1].key = k
            /\ \/ /\ queue[1].fn = "saveProgress" /\ queue[1].op = "setItem"
                  /\ storedProgress'[k].present
                  /\ queue[1].book \in DOMAIN JSONparse(storedProgress'[k].text).vals
               \/ /\ queue[1].fn = "handleResetProgress"
                  /\ storedProgress'[k] = Null]_vars

\* Grade h was selected after grade g and Home has loaded it; a book
\* completed in grade g is still stored as completed.
C16_Witness ==
  /\ screen = "Home" /\ homeLoaded
  /\ home.selectedGrade # NoGrade
  /\ storedGrade = [present |-> TRUE, text |-> gradeToString(home.selectedGrade)]
  /\ \E g \in Grades \ {home.selectedGrade} :
       \E b \in intensiveIds(g) : isCompleted(storedProgress, g, b)

\* The mapping loadProgressData parsed.
parsedStatsIn == JSONparse(statsIn.savedProgress.text)

statsLoaded == statsOut.evaluated /\ statsIn.savedProgress.present

\* The sum of currentPage over the records of a mapping.
pagesSum(progressData) ==
  LET sum[ids \in SUBSET DOMAIN progressData.vals] ==
        IF ids = {} THEN 0
        ELSE LET id == CHOOSE id \in ids : TRUE IN
             progressData.vals[id].currentPage + sum[ids \ {id}]
  IN sum[DOMAIN progressData.vals]

\* C17: the totalPagesRead calculateStats sets is the sum of currentPage
\* over all records of the mapping, completed or not; and were a page
\* update to move one record to another page of its book, the total of the
\* resulting mapping would differ by exactly the difference of the pages:
\* lower for a lower page, the same for the same page.
C17_TotalPagesIsSum ==
  statsLoaded
    => /\ statsOut.stats.totalPagesRead = pagesSum(parsedStatsIn)
       /\ \A id \in DOMAIN parsedStatsIn.vals :
            LET record == parsedStatsIn.vals[id] IN
            \A page \in (SeqRange(quickJumpPages(record.totalPages))
                           \cup {record.currentPage}) \ {0} :
              calculateStats(
                  ObjectAssign(parsedStatsIn, id,
                    [record EXCEPT !.currentPage = page, !.completed = FALSE]),
                  statsIn.grade).totalPagesRead
                = statsOut.stats.totalPagesRead - record.currentPage + page

\* The statistics of a mapping with a completed and a started book: the
\* total is the sum of both pages.
C17_Witness ==
  /\ statsLoaded
  /\ \E a, b \in DOMAIN parsedStatsIn.vals :
       /\ DOMAIN parsedStatsIn.vals = {a, b}
       /\ parsedStatsIn.vals[a].completed
       /\ ~parsedStatsIn.vals[b].completed
       /\ parsedStatsIn.vals[b].currentPage > 0
       /\ statsOut.stats.totalPagesRead
            = parsedStatsIn.vals[a].currentPage + parsedStatsIn.vals[b].currentPage

\* C18: the totalBooksCompleted calculateStats sets is the number of
\* records with completed = true, and intensiveBooksCompleted and
\* extensiveBooksCompleted are the numbers of those whose stored bookType
\* is 'intensive' and 'extensive'.
C18_CompletedCounts ==
  statsLoaded
    => LET vals == parsedStatsIn.vals
           done == {id \in DOMAIN vals : vals[id].completed} IN
       /\ statsOut.stats.totalBooksCompleted = Cardinality(done)
       /\ statsOut.stats.intensiveBooksCompleted
            = Cardinality({id \in done : vals[id].bookType = "intensive"})
       /\ statsOut.stats.extensiveBooksCompleted
            = Cardinality({id \in done : vals[id].bookType = "extensive"})

\* The statistics of a mapping with completed books of both types and a
\* book not completed.
C18_Witness ==
  /\ statsLoaded
  /\ statsOut.stats.intensiveBooksCompleted = 2
  /\ statsOut.stats.extensiveBooksCompleted = 1
  /\ statsOut.stats.totalBooksCompleted = 3
  /\ Len(parsedStatsIn.keys) > 3

\* C20: First Book is unlocked iff totalBooksCompleted >= 1, Foundation
\* Builder iff intensiveBooksCompleted equals the number of the grade's
\* intensive books and that number is above 0, Speed Reader iff
\* totalBooksCompleted >= 5, Bookworm iff totalPagesRead >= 100.
C20_Badges ==
  statsOut.evaluated
    => LET badges == statsOut.achievements
           stats == statsOut.stats
           required == Len(getIntensiveBooks(statsIn.grade)) IN
       /\ badges.firstBook <=> stats.totalBooksCompleted >= 1
       /\ badges.foundationBuilder
            <=> (stats.intensiveBooksCompleted = required /\ required > 0)
       /\ badges.speedReader <=> stats.totalBooksCompleted >= 5
       /\ badges.bookworm <=> stats.totalPagesRead >= 100

\* All four badges are unlocked.
C20_Witness ==
  /\ statsLoaded
  /\ statsOut.achievements
       = [firstBook |-> TRUE, foundationBuilder |-> TRUE, speedReader |-> TRUE,
          bookworm |-> TRUE]

\* C19: the recent list has at most 5 entries, of distinct records, ordered
\* from the newest lastRead to the oldest; no record left out is newer than
\* a listed one; each entry's progress is the percentage of its record, 100
\* when completed and else 100 * currentPage / totalPages rounded down; and
\* a record updated later than every other is the first entry.
C19_RecentList ==
  statsLoaded
    => LET recent == statsOut.recentBooks
           vals == parsedStatsIn.vals
           listed == {recent[i].id : i \in 1..Len(recent)}
           percent(record) ==
             IF record.completed THEN 100
             ELSE IF record.totalPages = 0 THEN 0
             ELSE (100 * record.currentPage) \div record.totalPages IN
       /\ Len(recent) <= 5
       /\ Len(recent) = Cardinality(listed)
       /\ listed \subseteq DOMAIN vals
       /\ Cardinality(DOMAIN vals) <= 5 => listed = DOMAIN vals
       /\ \A i, j \in 1..Len(recent) :
            i < j => recent[i].lastRead >= recent[j].lastRead
       /\ \A id \in DOMAIN vals \ listed :
            \A i \in 1..Len(recent) : vals[id].lastRead <= recent[i].lastRead
       /\ \A i \in 1..Len(recent) :
            /\ recent[i].lastRead = vals[recent[i].id].lastRead
            /\ recent[i].progress = percent(vals[recent[i].id])
       /\ \A id \in DOMAIN vals :
            (\A other \in DOMAIN vals \ {id} : vals[other].lastRead < vals[id].lastRead)
              => recent[1].id = id

\* C21: when a load of a mounted Profile completes, its counters, its
\* recent list and its badges are those of the mapping stored under the
\* grade's key at that moment (none when there is no item), whatever the
\* screen showed before; after a reset's reload the counters are 0, the
\* list is empty and every badge is locked.
C21_ProfileShowsWhatIsStored ==
  [][(/\ queue # <<>> /\ queue[1].fn = "loadProgressData" /\ queue[1].live
      /\ queue' = Tail(queue) /\ screen' = "Profile" /\ ~profile'.isLoading)
       => LET summary == calculateStats(mappingOf(storedProgress, queue[1].grade),
                                        queue[1].grade)
              shown == profile'.stats IN
          /\ shown.totalBooksCompleted = summary.totalBooksCompleted
          /\ shown.intensiveBooksCompleted = summary.intensiveBooksCompleted
          /\ shown.extensiveBooksCompleted = summary.extensiveBooksCompleted
          /\ shown.totalPagesRead = summary.totalPagesRead
          /\ profile'.recentBooks
               = getRecentBooks(mappingOf(storedProgress, queue[1].grade))
          /\ achievements(shown) = achievements(summary)]_vars

\* The i-th call was an accepted update to the last page of its book.
lastPageCall(i) ==
  /\ i <= Len(calls)
  /\ calls[i].inRange
  /\ \E b \in SeqRange(getIntensiveBooks(calls[i].grade)) :
       b.id = calls[i].book /\ b.totalPages = calls[i].page

\* A page update for the i-th call's book was issued after it.
laterCall(i) ==
  \E j \in (i + 1)..Len(calls) :
    /\ calls[j].inRange
    /\ calls[j].grade = calls[i].grade /\ calls[j].book = calls[i].book

\* An accepted update to a book's last page leads to the book being stored
\* as completed, unless a later update for the book is issued.
C22_EventuallyCompleted ==
  \A i \in 1..MaxCalls :
    [](lastPageCall(i)
         => <>(/\ i <= Len(calls)
               /\ \/ laterCall(i)
                  \/ isCompleted(storedProgress, calls[i].grade, calls[i].book)))

\* A record stored as completed stays so in every step but the write of a
\* page update for its book and the removal of a reset.
C22_CompletedIsKept ==
  [][\A g \in DOMAIN booksData :
       \A b \in SeqRange(getIntensiveBooks(g)) :
         (isCompleted(storedProgress, g, b.id) /\ ~isCompleted(storedProgress', g, b.id))
           => /\ queue # <<>>
              /\ \/ queue[1].fn = "handleResetProgress"
                 \/ queue[1].fn = "saveProgress" /\ queue[1].book = b.id]_vars

\* C22: with storage that succeeds and pending steps that eventually run,
\* an accepted update to a book's last page that no later update for the
\* book follows leads to a stored record of the book with completed = true,
\* and the record stays completed until the next page update for the book
\* or a reset.
C22_CompletionIsReachedAndKept == C22_EventuallyCompleted /\ C22_CompletedIsKept

\* C23: in every state, every stored record has totalPages >= 1 and
\* 1 <= currentPage <= totalPages.
C23_PageWithinBook ==
  \A g \in Grades \cup {NoGrade} :
    LET progress == mappingOf(storedProgress, g) IN
    \A id \in DOMAIN progress.vals :
      /\ progress.vals[id].totalPages >= 1
      /\ 1 <= progress.vals[id].currentPage
      /\ progress.vals[id].currentPage <= progress.vals[id].totalPages

\* A book was moved to page 2 and then, with Previous, to page 1, its first
\* page, which is stored.
C23_Witness ==
  /\ noSaveInFlight
  /\ Len(calls) = 2
  /\ calls[1].inRange /\ calls[1].page = 2
  /\ calls[2].inRange /\ calls[2].page = 1 /\ calls[2].book = calls[1].book
  /\ hasRecord(storedProgress, calls[2].grade, calls[2].book)
  /\ recordOf(storedProgress, calls[2].grade, calls[2].book).currentPage = 1

\* C24: where no page update is issued after a reset, the "Success" Alert
\* that acknowledges the reset finds the grade's stored mapping empty, and
\* so it stays: a save that read the mapping before the removal does not
\* write the records it read back.
C24_ResetStaysEmpty ==
  /\ (\E i \in 1..Len(alerts) : alerts[i] = SuccessAlert)
       => mappingOf(storedProgress, parseInt(storedGrade.text)) = EmptyObject
  /\ \A i \in 1..Len(queue) :
       (queue[i].fn = "loadProfileData" /\ queue[i].next = "handleResetProgress")
         => mappingOf(storedProgress, parseInt(storedGrade.text)) = EmptyObject

\* C25: in every state, every stored record with completed = true has
\* currentPage = totalPages.
C25_CompletedAtLastPage ==
  \A g \in Grades \cup {NoGrade} :
    LET progress == mappingOf(storedProgress, g) IN
    \A id \in DOMAIN progress.vals :
      progress.vals[id].completed
        => progress.vals[id].currentPage = progress.vals[id].totalPages

\* handleBookCompletion has stored a book as completed and raised its Alert,
\* while another book of the grade is stored at an earlier page.
C25_Witness ==
  /\ alert.title = "Congratulations"
  /\ \E i, j \in 1..Len(calls) :
       /\ lastPageCall(i)
       /\ isCompleted(storedProgress, calls[i].grade, calls[i].book)
       /\ calls[j].inRange /\ calls[j].book # calls[i].book
       /\ hasRecord(storedProgress, calls[j].grade, calls[j].book)
       /\ ~isCompleted(storedProgress, calls[j].grade, calls[j].book)

\* C26: in the step in which Home requests the navigation to the Extensive
\* tier, the mapping stored for the selected grade satisfies the unlock
\* rule, also while a reload of Home's flag is pending.
C26_NavigatesOnlyWhenUnlocked ==
  [][(unhandledRoute' = "ExtensiveBooks" /\ unhandledRoute # "ExtensiveBooks")
       => checkExtensiveLearningStatus(home.selectedGrade,
            storedProgress[progressKey(home.selectedGrade)])]_vars

\* C27: every route a screen has navigated to is registered in the
\* navigator; no navigate() call went unhandled.
C27_RoutesAreRegistered ==
  /\ screen \in Routes
  /\ unhandledRoute = NoRoute

\* The stats a Profile screen that has just been mounted sets from the item
\* stored for a grade.
profileStats(grade) ==
  loadProgressData(NoProfile, storedProgress[progressKey(grade)], grade).stats

\* C28: in every state and for every grade, the Foundation Builder badge of
\* the Profile screen, computed from the grade's stored mapping, is
\* unlocked exactly when Home's checkExtensiveLearningStatus of the same
\* stored mapping is true.
C28_BadgeIffTierUnlocked ==
  \A g \in Grades :
    achievements(profileStats(g)).foundationBuilder
      <=> checkExtensiveLearningStatus(g, storedProgress[progressKey(g)])

\* A grade with two intensive books has both stored as completed: the badge
\* and the tier are unlocked.
C28_Witness ==
  \E g \in Grades :
    /\ Len(getIntensiveBooks(g)) >= 2
    /\ noSaveInFlight
    /\ achievements(profileStats(g)).foundationBuilder
    /\ checkExtensiveLearningStatus(g, storedProgress[progressKey(g)])

\* C29: in every state, every stored record has bookType 'intensive' and is
\* the record of an intensive book of the grade of its key; the stats and
\* badges Profile computes from the stored mapping have
\* extensiveBooksCompleted = 0, totalBooksCompleted =
\* intensiveBooksCompleted, and Speed Reader and Bookworm locked.
C29_OnlyIntensiveRecords ==
  \A g \in Grades \cup {NoGrade} :
    LET progress == mappingOf(storedProgress, g)
        stats == profileStats(g) IN
    /\ \A id \in DOMAIN progress.vals :
         /\ progress.vals[id].bookType = "intensive"
         /\ id \in intensiveIds(g)
    /\ stats.extensiveBooksCompleted = 0
    /\ stats.totalBooksCompleted = stats.intensiveBooksCompleted
    /\ ~achievements(stats).speedReader
    /\ ~achievements(stats).bookworm

\* Every intensive book of the largest grade of the catalog is stored as
\* completed: the most books and pages a grade can reach.
C29_Witness ==
  \E g \in Grades :
    /\ Len(getIntensiveBooks(g)) >= 2
    /\ DOMAIN mappingOf(storedProgress, g).vals = intensiveIds(g)
    /\ profileStats(g).totalBooksCompleted = Len(getIntensiveBooks(g))
    /\ profileStats(g).totalPagesRead = pagesSum(mappingOf(storedProgress, g))
    /\ profileStats(g).totalPagesRead > 0

\* C30: a load of Home whose read of the grade's progress is rejected, or
\* finds no item under the key, sets the flag to locked.
C30_FailedReadLocks ==
  [][(/\ queue # <<>>
      /\ queue[1].fn = "checkExtensiveLearningStatus"
      /\ queue[1].live
      /\ queue' = Tail(queue)
      /\ \/ nFailures' > nFailures
         \/ ~storedProgress[queue[1].key].present)
       => /\ ~home'.extensiveLearningUnlocked
          /\ ~home'.isLoading]_vars

\* Every intensive book of the grade is stored as completed and Home showed
\* the tier unlocked; the read of a reload was rejected and Home shows it
\* locked.
C30_Witness ==
  /\ nFailures >= 1
  /\ queue = <<>>
  /\ screen = "Home"
  /\ ~home.isLoading
  /\ ~home.extensiveLearningUnlocked
  /\ checkExtensiveLearningStatus(home.selectedGrade,
                                  storedProgress[progressKey(home.selectedGrade)])

====
